---- MODULE Spec2Model ----
(***************************************************************************)
(* Limit order book (orderbook/order_book.py) and the exchange agent that  *)
(* drives it (core/exchange.py), for one symbol; the simulation kernel     *)
(* (core/kernel.py) and its message bus (message.py).                      *)
(*                                                                         *)
(* Prices are integers 1..MaxPrice; the market sentinels are 0 (SELL) and  *)
(* Inf (BUY, float('inf')).  min_fill_percent is kept in percent, so       *)
(* filled / quantity >= p  reads  filled * 100 >= p * quantity.            *)
(* Order objects are shared by reference between order_map and the level   *)
(* FIFOs: obj maps an order id to the one object of that id.               *)
(***************************************************************************)
EXTENDS Integers, Sequences, FiniteSets, TLC

VARIABLES
    bids,           \* OrderBook.bids: price -> [quantity, orders]
    asks,           \* OrderBook.asks: price -> [quantity, orders]
    order_map,      \* OrderBook.order_map: the ids it holds
    obj,            \* the Order objects the book references, by order_id
    best_bid,       \* OrderBook.best_bid
    best_ask,       \* OrderBook.best_ask
    trade_history,  \* ExchangeAgent.trade_history
    calls,          \* the number of calls made so far
    ret,            \* the last call: its arguments and what it returned
    status,         \* "ready", or "spinning" once a call never returns
    current_time,   \* Kernel.current_time
    end_time,       \* Kernel.end_time
    event_queue,    \* Kernel.event_queue: <<timestamp, agent_id>> -> count
    agent_wakeups,  \* Kernel.agent_wakeups: timestamp -> set of agent ids
    subscriptions,  \* MessageBroker.subscriptions: topic -> agent ids
    wildcard_subscriptions, \* MessageBroker.wildcard_subscriptions
    message_queue,  \* MessageBroker.message_queue: the pending messages
    pc,             \* where Kernel.run stands
    deliveries,     \* deliver_messages: the handler calls still to make
    iter,           \* the iterator of the wakeup loop: size and elements left
    published,      \* the number of messages published so far
    ops,            \* the subscribe, send_message, schedule_event calls made,
                    \* and the wakeups and depth queries of the exchange
    handed,         \* the <<message, agent>> pairs handed to a handler
    owed,           \* the <<timestamp, agent>> wakeups accepted, not yet made
    market_data,    \* ExchangeAgent.market_data: symbol -> MarketData
    scheduled_wakeups   \* the exchange's ActiveAgent.scheduled_wakeups

book_vars == <<bids, asks, order_map, obj, best_bid, best_ask, trade_history,
               calls, ret, status>>

kernel_vars == <<current_time, end_time, event_queue, agent_wakeups,
                 subscriptions, wildcard_subscriptions, message_queue, pc,
                 deliveries, iter, published, ops, handed, owed>>

exchange_vars == <<market_data, scheduled_wakeups>>

vars == <<book_vars, kernel_vars, exchange_vars>>

----------------------------------------------------------------------------
\* Bounds of the model: limit prices 1..MaxPrice, quantities 1..MaxQty, at
\* most MaxCalls calls in a run; DeepPrices and DeepCalls for the runs that
\* build more ask levels than a depth query reads.
MaxPrice == 2
MaxQty == 2
MaxCalls == 3
DeepPrices == 6
DeepCalls == 7

\* Bounds of the kernel runs: times 0..MaxTime, and at most MaxOps calls of
\* subscribe, send_message and schedule_event in a run.
MaxTime == 2
MaxOps == 4

Times == 0..MaxTime

\* float('inf'): above every limit price.
Inf == MaxPrice + DeepPrices + 1

\* get_market_depth's default depth, used by get_average_price_for_quantity.
DefaultDepth == 5

\* The exchange's min_fill_percent = 0.8, in percent.
ExchangeMinFill == 80

Agents == {"A", "B"}
Sides == {"BUY", "SELL"}
Prices == 1..MaxPrice
Quantities == 1..MaxQty
FillPercents == {0, 50, 100}

----------------------------------------------------------------------------
\* Helpers.
Min(a, b) == IF a <= b THEN a ELSE b

SetMin(S) == CHOOSE x \in S : \A y \in S : x <= y

SetMax(S) == CHOOSE x \in S : \A y \in S : x >= y

RemoveAt(s, i) == [k \in 1..(Len(s) - 1) |-> IF k < i THEN s[k] ELSE s[k + 1]]

Restrict(f, S) == [x \in S |-> f[x]]

Put(f, k, v) == [x \in (DOMAIN f) \cup {k} |-> IF x = k THEN v ELSE f[x]]

Range(s) == {s[k] : k \in DOMAIN s}

\* F applied to the value of v, with v evaluated once.
Bind(v, F(_)) == CHOOSE r \in {F(x) : x \in {v}} : TRUE

\* OrderBookLevel(price): quantity 0, no orders.
OrderBookLevel == [quantity |-> 0, orders |-> <<>>]

\* The book as one value, for the operators below.
Book == [bids |-> bids, asks |-> asks, order_map |-> order_map, obj |-> obj,
         best_bid |-> best_bid, best_ask |-> best_ask]

NoRet == [op |-> "none", order_id |-> 0, agent_id |-> "A", side |-> "BUY",
          price |-> 0, quantity |-> 0, min_fill |-> 0, partial |-> FALSE,
          ok |-> FALSE, trades |-> <<>>]

\* Order(order_id, agent_id, symbol, side, price, quantity, timestamp).
Order(id, agent, side, price, qty) ==
    [order_id |-> id, agent_id |-> agent, side |-> side, price |-> price,
     quantity |-> qty]

----------------------------------------------------------------------------
\* The matcher.  A matching state m is the book plus the trades emitted so
\* far and spin, set when the matching loop can make no further progress.

\* The opposite side's levels: asks for a BUY, bids for a SELL.
OppositeLevels(m, side) == IF side = "BUY" THEN m.asks ELSE m.bids

SetOppositeLevels(m, side, levels) ==
    IF side = "BUY" THEN [m EXCEPT !.asks = levels]
    ELSE [m EXCEPT !.bids = levels]

\* The far end of a side: the highest ask, the lowest bid.
PeekWorst(levels, bookSide) ==
    IF bookSide = "SELL" THEN SetMax(DOMAIN levels) ELSE SetMin(DOMAIN levels)

\* SortedDict.peekitem(0)[0]: the lowest ask, the highest bid.
peekitem(levels, bookSide) ==
    IF bookSide = "SELL" THEN SetMin(DOMAIN levels) ELSE SetMax(DOMAIN levels)

\* A trade tuple priced at the incoming order's price.
TradeAtIncomingPrice(incoming, existing, q) ==
    [trade_id |-> <<incoming.order_id, existing.order_id>>,
     price |-> incoming.price,
     quantity |-> q,
     first_agent |-> incoming.agent_id,
     second_agent |-> existing.agent_id]

\* The trade tuple of _execute_match:
\* (trade_id, price, quantity, incoming agent, existing agent).
trade_tuple(incoming, existing, q) ==
    [trade_id |-> <<incoming.order_id, existing.order_id>>,
     price |-> existing.price,
     quantity |-> q,
     first_agent |-> incoming.agent_id,
     second_agent |-> existing.agent_id]

\* _execute_match: walk the level at price p of the opposite side from
\* index i (1-based) while the incoming order has quantity left.
RECURSIVE execute_match(_, _, _, _)
execute_match(m0, inc, p, i) ==
    Bind(m0, LAMBDA m :
    LET side == m.obj[inc].side
        levels == OppositeLevels(m, side)
        level == levels[p]
    IN  IF ~(i <= Len(level.orders) /\ m.obj[inc].quantity > 0) THEN m
        ELSE
        LET ex == level.orders[i]
            q == Min(m.obj[inc].quantity, m.obj[ex].quantity)
            trade == trade_tuple(m.obj[inc], m.obj[ex], q)
            obj1 == [m.obj EXCEPT ![inc].quantity = @ - q,
                                  ![ex].quantity = @ - q]
            gone == obj1[ex].quantity <= 0
            level1 == [quantity |-> level.quantity - q,
                       orders |-> IF gone THEN RemoveAt(level.orders, i)
                                  ELSE level.orders]
            m1 == [SetOppositeLevels(m, side, [levels EXCEPT ![p] = level1])
                     EXCEPT !.obj = obj1,
                            !.order_map = IF gone THEN @ \ {ex} ELSE @,
                            !.trades = Append(@, trade)]
        IN  execute_match(m1, inc, p, IF gone THEN i ELSE i + 1))

\* price_condition of _match_order.
price_condition(order, level_price) ==
    IF order.side = "BUY"
    THEN (IF order.price = Inf THEN TRUE ELSE level_price <= order.price)
    ELSE (IF order.price = 0 THEN TRUE ELSE level_price >= order.price)

\* _update_best_prices refreshing best_bid only.
UpdateBestBidOnly(m0) ==
    Bind(m0, LAMBDA m :
    [m EXCEPT !.best_bid = IF DOMAIN m.bids # {} THEN peekitem(m.bids, "BUY")
                           ELSE 0])

\* _update_best_prices.
update_best_prices(m0) ==
    Bind(m0, LAMBDA m :
    [m EXCEPT !.best_bid = IF DOMAIN m.bids # {} THEN peekitem(m.bids, "BUY")
                           ELSE 0,
              !.best_ask = IF DOMAIN m.asks # {} THEN peekitem(m.asks, "SELL")
                           ELSE Inf])

\* The while loop of _match_order.  An iteration that changes nothing
\* repeats for ever: the loop then spins and the call never returns.
RECURSIVE match_loop(_, _)
match_loop(m0, inc) ==
    Bind(m0, LAMBDA m :
    LET order == m.obj[inc]
        bookSide == IF order.side = "BUY" THEN "SELL" ELSE "BUY"
        levels == OppositeLevels(m, order.side)
    IN  IF ~(order.quantity > 0 /\ DOMAIN levels # {}
             /\ price_condition(order, peekitem(levels, bookSide)))
        THEN m
        ELSE
        LET p == peekitem(levels, bookSide)
        IN  Bind(execute_match(m, inc, p, 1), LAMBDA m1 :
            LET levels1 == OppositeLevels(m1, order.side)
                m2 == IF levels1[p].quantity <= 0
                      THEN SetOppositeLevels(m1, order.side,
                               Restrict(levels1, DOMAIN levels1 \ {p}))
                      ELSE m1
            IN  IF m2 = m THEN [m EXCEPT !.spin = TRUE]
                ELSE match_loop(m2, inc)))

\* _match_order: match, then refresh the best prices.
match_order(m, inc) ==
    Bind(match_loop(m, inc), LAMBDA m1 :
         IF m1.spin THEN m1 ELSE update_best_prices(m1))

----------------------------------------------------------------------------
\* Depth queries.

\* The levels of one side of the book, best first, as <<price, quantity>>.
RECURSIVE items(_, _)
items(levels, bookSide) ==
    IF DOMAIN levels = {} THEN <<>>
    ELSE LET p == peekitem(levels, bookSide)
         IN  <<(<<p, levels[p].quantity>>)>>
             \o items(Restrict(levels, DOMAIN levels \ {p}), bookSide)

\* get_market_depth(side, depth): the side a `side` order trades against.
get_market_depth(b, side, depth) ==
    LET all == IF side = "BUY" THEN items(b.asks, "SELL")
               ELSE items(b.bids, "BUY")
    IN  SubSeq(all, 1, Min(depth, Len(all)))

\* The for loop of get_average_price_for_quantity: the filled quantity.
RECURSIVE walk_levels(_, _, _, _)
walk_levels(levels, k, quantity, filled) ==
    IF k > Len(levels) \/ filled >= quantity THEN filled
    ELSE walk_levels(levels, k + 1, quantity,
                     filled + Min(levels[k][2], quantity - filled))

\* get_average_price_for_quantity, its fill_percentage as num / den.
get_average_price_for_quantity(b, side, quantity) ==
    LET levels == get_market_depth(b, side, DefaultDepth)
        filled == walk_levels(levels, 1, quantity, 0)
    IN  IF levels = <<>> \/ filled = 0 THEN [num |-> 0, den |-> 1]
        ELSE [num |-> filled, den |-> quantity]

\* can_fill_order: fill_percentage >= min_fill_percent (in percent).
can_fill_order(b, side, quantity, min_fill_percent) ==
    LET f == get_average_price_for_quantity(b, side, quantity)
    IN  f.num * 100 >= min_fill_percent * f.den

\* The sum of the aggregates of the first n levels of get_market_depth's
\* list.
RECURSIVE sum_levels(_, _)
sum_levels(levels, n) ==
    IF n = 0 THEN 0 ELSE sum_levels(levels, n - 1) + levels[n][2]

\* get_total_quantity_at_side(side, depth = None): the level aggregates of
\* the side a `side` order trades against (asks for "BUY", bids for "SELL").
get_total_quantity_at_side(b, side) ==
    LET levels == IF side = "BUY" THEN items(b.asks, "SELL")
                  ELSE items(b.bids, "BUY")
    IN  sum_levels(levels, Len(levels))

\* get_imbalance, as num / den.
get_imbalance(b) ==
    LET bid_quantity == get_total_quantity_at_side(b, "SELL")
        ask_quantity == get_total_quantity_at_side(b, "BUY")
    IN  IF bid_quantity + ask_quantity = 0 THEN [num |-> 0, den |-> 1]
        ELSE [num |-> bid_quantity - ask_quantity,
              den |-> bid_quantity + ask_quantity]

----------------------------------------------------------------------------
\* The book operations, as functions of the book b.  Each returns the book
\* after the call with trades, ok and spin.

Matching(b) ==
    [bids |-> b.bids, asks |-> b.asks, order_map |-> b.order_map,
     obj |-> b.obj, best_bid |-> b.best_bid, best_ask |-> b.best_ask,
     trades |-> <<>>, ok |-> TRUE, spin |-> FALSE]

\* The "{order_id}_MARKET_PART" id of the temporary order.
MarketPart(id) == 0 - id

\* Lines 64-97 of add_limit_order: the market-like part.  Returns the
\* matching state and the quantity the order is left with.
partial_market(m0, order) ==
    Bind(m0, LAMBDA m :
    LET opp == OppositeLevels(m, order.side)
        liquidity_at_price == IF order.price \in DOMAIN opp
                              THEN opp[order.price].quantity ELSE 0
        fillable_quantity == Min(order.quantity, liquidity_at_price)
        tmp == MarketPart(order.order_id)
        market_like_order == [order EXCEPT !.order_id = tmp,
                                           !.quantity = fillable_quantity]
    IN  IF liquidity_at_price > 0
        THEN [m |-> match_order(
                      [m EXCEPT !.obj = Put(@, tmp, market_like_order)], tmp),
              left |-> order.quantity - fillable_quantity]
        ELSE [m |-> m, left |-> order.quantity])

\* Lines 100-123 of add_limit_order: rest the order, then match it.
rest_and_match(m0, order) ==
    Bind(m0, LAMBDA m :
    LET id == order.order_id
        own == IF order.side = "BUY" THEN m.bids ELSE m.asks
        level == IF order.price \in DOMAIN own THEN own[order.price]
                 ELSE OrderBookLevel
        level1 == [quantity |-> level.quantity + order.quantity,
                   orders |-> Append(level.orders, id)]
        own1 == Put(own, order.price, level1)
        m1 == [m EXCEPT !.order_map = @ \cup {id},
                        !.obj = Put(@, id, order),
                        !.bids = IF order.side = "BUY" THEN own1 ELSE @,
                        !.asks = IF order.side = "SELL" THEN own1 ELSE @]
    IN  match_order(update_best_prices(m1), id))

add_limit_order(b, order, execute_partial_market) ==
    Bind(IF execute_partial_market THEN partial_market(Matching(b), order)
         ELSE [m |-> Matching(b), left |-> order.quantity],
         LAMBDA pm :
         IF pm.m.spin THEN pm.m
         ELSE IF pm.left > 0
              THEN rest_and_match(pm.m, [order EXCEPT !.quantity = pm.left])
              ELSE pm.m)

\* add_market_order with the order registered before the liquidity check.
RegisterThenCheck(b, order, min_fill_percent) ==
    LET m0 == [Matching(b) EXCEPT !.order_map = @ \cup {order.order_id},
                                  !.obj = Put(@, order.order_id, order)]
    IN  IF ~can_fill_order(b, order.side, order.quantity, min_fill_percent)
        THEN [m0 EXCEPT !.ok = FALSE]
        ELSE match_order(m0, order.order_id)

add_market_order(b, order, min_fill_percent) ==
    LET m0 == Matching(b)
    IN  IF ~can_fill_order(b, order.side, order.quantity, min_fill_percent)
        THEN [m0 EXCEPT !.ok = FALSE]
        ELSE match_order([m0 EXCEPT !.order_map = @ \cup {order.order_id},
                                    !.obj = Put(@, order.order_id, order)],
                         order.order_id)

\* The level update with the level's aggregate left as it was.
CancelKeepsQuantity(levels, order) ==
    IF order.price \notin DOMAIN levels THEN levels
    ELSE [levels EXCEPT ![order.price].orders =
              SelectSeq(@, LAMBDA o : o # order.order_id)]

\* The level update of cancel_order on one side of the book.
cancel_in_levels(levels, order) ==
    IF order.price \notin DOMAIN levels THEN levels
    ELSE LET level == levels[order.price]
             level1 == [quantity |-> level.quantity - order.quantity,
                        orders |-> SelectSeq(level.orders,
                                     LAMBDA o : o # order.order_id)]
         IN  IF level1.quantity <= 0
             THEN Restrict(levels, DOMAIN levels \ {order.price})
             ELSE [levels EXCEPT ![order.price] = level1]

\* cancel_order that leaves the order in the order_id index.
CancelLeavesIndexed(b, order_id) ==
    LET m0 == Matching(b)
    IN  IF order_id \notin b.order_map THEN [m0 EXCEPT !.ok = FALSE]
        ELSE LET order == b.obj[order_id]
             IN  update_best_prices(
                     [m0 EXCEPT
                        !.bids = IF order.side = "BUY"
                                 THEN cancel_in_levels(@, order) ELSE @,
                        !.asks = IF order.side = "SELL"
                                 THEN cancel_in_levels(@, order) ELSE @])

cancel_order(b, order_id) ==
    LET m0 == Matching(b)
    IN  IF order_id \notin b.order_map THEN [m0 EXCEPT !.ok = FALSE]
        ELSE LET order == b.obj[order_id]
                 m1 == [m0 EXCEPT
                          !.bids = IF order.side = "BUY"
                                   THEN cancel_in_levels(@, order) ELSE @,
                          !.asks = IF order.side = "SELL"
                                   THEN cancel_in_levels(@, order) ELSE @,
                          !.order_map = @ \ {order_id}]
             IN  update_best_prices(m1)

----------------------------------------------------------------------------
\* State machine.

\* The ids the book still references: order_map and the level FIFOs.
Referenced(m) ==
    m.order_map
    \cup UNION {Range(m.bids[p].orders) : p \in DOMAIN m.bids}
    \cup UNION {Range(m.asks[p].orders) : p \in DOMAIN m.asks}

\* The book after a call that ended in matching state m.
SetBook(m) ==
    /\ bids' = m.bids
    /\ asks' = m.asks
    /\ order_map' = m.order_map
    /\ obj' = Restrict(m.obj, Referenced(m))
    /\ best_bid' = m.best_bid
    /\ best_ask' = m.best_ask
    /\ status' = IF m.spin THEN "spinning" ELSE "ready"

Call(op, order, min_fill, partial, m) ==
    [op |-> op, order_id |-> order.order_id, agent_id |-> order.agent_id,
     side |-> order.side, price |-> order.price, quantity |-> order.quantity,
     min_fill |-> min_fill, partial |-> partial,
     ok |-> m.ok /\ ~m.spin, trades |-> m.trades]

Init ==
    /\ bids = <<>>
    /\ asks = <<>>
    /\ order_map = {}
    /\ obj = <<>>
    /\ best_bid = 0
    /\ best_ask = Inf
    /\ trade_history = <<>>
    /\ calls = 0
    /\ ret = NoRet
    /\ status = "ready"
    /\ current_time = 0
    /\ end_time = 0
    /\ event_queue = <<>>
    /\ agent_wakeups = <<>>
    /\ subscriptions = <<>>
    /\ wildcard_subscriptions = <<>>
    /\ message_queue = {}
    /\ pc = "idle"
    /\ deliveries = <<>>
    /\ iter = [size |-> 0, left |-> {}]
    /\ published = 0
    /\ ops = 0
    /\ handed = {}
    /\ owed = {}
    /\ market_data = <<>>
    /\ scheduled_wakeups = {}

\* OrderBook.add_limit_order(order, execute_partial_market).
AddLimitOrder(id, agent, side, price, qty, partial) ==
    /\ status = "ready"
    /\ LET order == Order(id, agent, side, price, qty)
       IN  \E m \in {add_limit_order(Book, order, partial)} :
               /\ SetBook(m)
               /\ ret' = Call("add_limit_order", order, 0, partial, m)
    /\ calls' = calls + 1
    /\ UNCHANGED <<kernel_vars, exchange_vars>>
    /\ UNCHANGED trade_history

\* OrderBook.add_market_order(order, min_fill_percent).
AddMarketOrder(id, agent, side, qty, min_fill) ==
    /\ status = "ready"
    /\ LET order == Order(id, agent, side,
                          IF side = "BUY" THEN Inf ELSE 0, qty)
       IN  \E m \in {add_market_order(Book, order, min_fill)} :
               /\ SetBook(m)
               /\ ret' = Call("add_market_order", order, min_fill, FALSE, m)
    /\ calls' = calls + 1
    /\ UNCHANGED <<kernel_vars, exchange_vars>>
    /\ UNCHANGED trade_history

\* OrderBook.cancel_order(order_id).
CancelOrder(id) ==
    /\ status = "ready"
    /\ \E m \in {cancel_order(Book, id)} :
           /\ SetBook(m)
           /\ ret' = [NoRet EXCEPT !.op = "cancel_order", !.order_id = id,
                                   !.ok = m.ok]
    /\ calls' = calls + 1
    /\ UNCHANGED <<kernel_vars, exchange_vars>>
    /\ UNCHANGED trade_history

\* Callers name a new order with an id no earlier call used: the number
\* of the call.  A run makes at most max calls.
NewIds(max) == IF calls < max THEN {calls + 1} ELSE {}

KnownIds(max) == IF calls < max THEN 1..(calls + 1) ELSE {}

\* The agent that makes call id: the two agents take turns.
Caller(id) == IF id % 2 = 1 THEN "A" ELSE "B"

\* The book driven directly.
Next ==
    \/ \E id \in NewIds(MaxCalls), s \in Sides, p \in Prices,
          q \in Quantities, e \in BOOLEAN :
          AddLimitOrder(id, Caller(id), s, p, q, e)
    \/ \E id \in NewIds(MaxCalls), s \in Sides, q \in Quantities,
          f \in FillPercents :
          AddMarketOrder(id, Caller(id), s, q, f)
    \/ \E id \in KnownIds(MaxCalls) : CancelOrder(id)

Spec == Init /\ [][Next]_vars

\* The book driven directly, one call more.
LongCalls == 4

NextLong ==
    \/ \E id \in NewIds(LongCalls), s \in Sides, p \in Prices,
          q \in Quantities, e \in BOOLEAN :
          AddLimitOrder(id, Caller(id), s, p, q, e)
    \/ \E id \in NewIds(LongCalls), s \in Sides, q \in Quantities,
          f \in FillPercents :
          AddMarketOrder(id, Caller(id), s, q, f)
    \/ \E id \in KnownIds(LongCalls) : CancelOrder(id)

SpecLong == Init /\ [][NextLong]_vars

----------------------------------------------------------------------------
\* The book with many ask levels: a ladder of resting SELL orders of
\* quantity 1 built from the best price up on DeepPrices prices, and market
\* BUY orders for DeepPrices units.
LadderPrices ==
    {p \in 1..DeepPrices : \A a \in DOMAIN asks : p >= a}

NextDeep ==
    \/ \E id \in NewIds(DeepCalls), p \in LadderPrices :
          AddLimitOrder(id, Caller(id), "SELL", p, 1, FALSE)
    \/ \E id \in NewIds(DeepCalls), f \in FillPercents :
          AddMarketOrder(id, Caller(id), "BUY", DeepPrices, f)

SpecDeep == Init /\ [][NextDeep]_vars

----------------------------------------------------------------------------
\* The exchange agent.  Its one order book is the book of Symbol; Unknown
\* is a symbol no order names.  The messages it publishes carry their
\* payload.

ExchangeId == "EXCHANGE"

Symbol == "X"

Unknown == "Y"

\* At most MaxQueries wakeups and market depth queries of the exchange in a
\* run.
MaxQueries == 1

\* ExchangeAgent.market_data_update_interval, in the time unit of the runs
\* (the attribute is 100 when the agent is built).
Interval == 1

\* is_market_order of _process_order.
is_market_order(order) ==
    \/ order.side = "BUY" /\ order.price = Inf
    \/ order.side = "SELL" /\ order.price = 0

\* Trade(trade_id, symbol, price, quantity, buyer_id, seller_id, timestamp)
\* as _process_order builds it from a trade tuple: the tuple's fourth field
\* is taken as buyer_id, its fifth as seller_id.
Trade(t, timestamp) ==
    [trade_id |-> t.trade_id, symbol |-> Symbol, price |-> t.price,
     quantity |-> t.quantity, buyer_id |-> t.first_agent,
     seller_id |-> t.second_agent, timestamp |-> timestamp]

RECURSIVE append_trades(_, _, _, _)
append_trades(history, trades, k, timestamp) ==
    IF k > Len(trades) THEN history
    ELSE append_trades(Append(history, Trade(trades[k], timestamp)), trades,
                       k + 1, timestamp)

\* One send_message(topic, payload, timestamp) of the exchange.
Outbound(topic, payload, timestamp) ==
    [topic |-> topic, payload |-> payload, timestamp |-> timestamp]

\* The kernel time at which a call is made: -1 before the run.
Now == IF pc = "idle" THEN 0 - 1 ELSE current_time

\* The queue after the send_message calls outs, made in this order, the
\* first of them being publication n + 1.
publish_all(queue, n, outs) ==
    queue \cup {[seq |-> n + i, timestamp |-> outs[i].timestamp,
                 topic |-> outs[i].topic, sent_at |-> Now,
                 payload |-> outs[i].payload] : i \in DOMAIN outs}

\* The topics initialize_symbol subscribes the exchange to.
ExchangeTopics(symbol) ==
    {<<symbol, "ORDER">>, <<symbol, "CANCEL">>, <<symbol, "MARKET_DEPTH">>}

\* MessageBroker.subscribe(agent_id, topic) for each of the exact topics.
subscribe_all(subs, a, topics) ==
    [tp \in DOMAIN subs \cup topics |->
        (IF tp \in DOMAIN subs THEN subs[tp] ELSE {})
        \cup (IF tp \in topics THEN {a} ELSE {})]

\* initialize_symbol without its guard: the MarketData of the symbol is
\* built anew also when the symbol has a book.
ReinitializeSymbol(md, symbol) ==
    Put(md, symbol, [timestamp |-> 0, best_bid |-> 0, best_ask |-> Inf])

\* initialize_symbol: the MarketData of a symbol that has no book yet.
initialize_symbol(md, symbol) ==
    IF symbol \in DOMAIN md THEN md
    ELSE Put(md, symbol, [timestamp |-> 0, best_bid |-> 0, best_ask |-> Inf])

\* initialize_symbol: the subscriptions, and schedule_wakeup(interval),
\* which adds the time to the agent's own scheduled_wakeups.
InitializeEffects(symbol) ==
    IF symbol \in DOMAIN market_data
    THEN UNCHANGED <<subscriptions, scheduled_wakeups>>
    ELSE /\ subscriptions' = subscribe_all(subscriptions, ExchangeId,
                                           ExchangeTopics(symbol))
         /\ scheduled_wakeups' = scheduled_wakeups \cup {Interval}

\* _update_market_data: the MarketData of the symbol after the book call
\* that ended in m, and the payload of the PRICE message.
update_market_data(md, symbol, timestamp, m) ==
    [md EXCEPT ![symbol] = [timestamp |-> timestamp, best_bid |-> m.best_bid,
                            best_ask |-> m.best_ask]]

price_payload(m) ==
    [best_bid |-> m.best_bid, best_ask |-> m.best_ask,
     spread |-> IF m.best_ask # Inf THEN m.best_ask - m.best_bid ELSE 0]

\* get_order_book_snapshot(depth = 5).
get_order_book_snapshot(m) ==
    [bids |-> get_market_depth(m, "SELL", DefaultDepth),
     asks |-> get_market_depth(m, "BUY", DefaultDepth),
     best_bid |-> m.best_bid, best_ask |-> m.best_ask]

\* The TRADE messages of _process_order, one per trade tuple.
trade_messages(trades, timestamp) ==
    [i \in DOMAIN trades |->
        Outbound(<<Symbol, "TRADE">>,
                 [trade_id |-> trades[i].trade_id, price |-> trades[i].price,
                  quantity |-> trades[i].quantity,
                  buyer_id |-> trades[i].first_agent,
                  seller_id |-> trades[i].second_agent], timestamp)]

\* _process_order leaving the timestamp of its messages to send_message,
\* which then takes the kernel's current time.
OrderMessagesAtKernelTime(m, timestamp) ==
    trade_messages(m.trades, current_time)
    \o <<Outbound(<<Symbol, "PRICE">>, price_payload(m), current_time),
         Outbound(<<Symbol, "ORDERBOOK">>, get_order_book_snapshot(m),
                  current_time)>>

\* What _process_order publishes after the book call that ended in m: the
\* trades, the price update, the order book update.
order_messages(m, timestamp) ==
    trade_messages(m.trades, timestamp)
    \o <<Outbound(<<Symbol, "PRICE">>, price_payload(m), timestamp),
         Outbound(<<Symbol, "ORDERBOOK">>, get_order_book_snapshot(m),
                  timestamp)>>

\* ExchangeAgent.initialize_symbol(Symbol), called before the run.
InitializeSymbol ==
    /\ status = "ready"
    /\ Symbol \notin DOMAIN market_data
    /\ market_data' = initialize_symbol(market_data, Symbol)
    /\ InitializeEffects(Symbol)
    /\ UNCHANGED <<current_time, end_time, event_queue, agent_wakeups,
                   wildcard_subscriptions, message_queue, pc, deliveries,
                   iter, published, ops, handed, owed>>
    /\ UNCHANGED book_vars

\* ExchangeAgent._process_order on an ORDER message of timestamp t from
\* agent.  A rejected market order, and a book call that never returns,
\* publish nothing.
ProcessOrder(id, agent, side, price, qty, t) ==
    /\ status = "ready"
    /\ InitializeEffects(Symbol)
    /\ LET order == Order(id, agent, side, price, qty)
           market == is_market_order(order)
       IN  \E m \in {IF market
                     THEN add_market_order(Book, order, ExchangeMinFill)
                     ELSE add_limit_order(Book, order, FALSE)} :
           \E outs \in {IF m.spin \/ ~m.ok THEN <<>>
                        ELSE order_messages(m, t)} :
               /\ SetBook(m)
               /\ ret' = Call(IF market THEN "add_market_order"
                              ELSE "add_limit_order",
                              order, IF market THEN ExchangeMinFill ELSE 0,
                              FALSE, m)
               /\ trade_history' = IF m.spin \/ ~m.ok THEN trade_history
                                   ELSE append_trades(trade_history,
                                                      m.trades, 1, t)
               /\ market_data' =
                     IF m.spin \/ ~m.ok
                     THEN initialize_symbol(market_data, Symbol)
                     ELSE update_market_data(
                              initialize_symbol(market_data, Symbol),
                              Symbol, t, m)
               /\ message_queue' = publish_all(message_queue, published, outs)
               /\ published' = published + Len(outs)
    /\ calls' = calls + 1
    /\ UNCHANGED <<current_time, end_time, event_queue, agent_wakeups,
                   wildcard_subscriptions, pc, deliveries, iter, ops, handed,
                   owed>>

\* _process_cancel stamping its messages with the kernel's time instead of
\* the inbound timestamp.
CancelMessagesAtKernelTime(id, m, timestamp) ==
    <<Outbound(<<Symbol, "CANCEL_CONFIRM">>,
               [order_id |-> id, cancelled |-> TRUE], Now),
      Outbound(<<Symbol, "PRICE">>, price_payload(m), Now)>>

\* What _process_cancel publishes when the order was cancelled.
cancel_messages(id, m, timestamp) ==
    <<Outbound(<<Symbol, "CANCEL_CONFIRM">>,
               [order_id |-> id, cancelled |-> TRUE], timestamp),
      Outbound(<<Symbol, "PRICE">>, price_payload(m), timestamp)>>

\* ExchangeAgent._process_cancel on a CANCEL message of timestamp t.
ProcessCancel(id, t) ==
    /\ status = "ready"
    /\ IF Symbol \in DOMAIN market_data
       THEN \E m \in {cancel_order(Book, id)} :
            \E outs \in {IF m.ok THEN cancel_messages(id, m, t) ELSE <<>>} :
               /\ SetBook(m)
               /\ ret' = [NoRet EXCEPT !.op = "cancel_order",
                                       !.order_id = id, !.ok = m.ok]
               /\ market_data' =
                     IF m.ok THEN update_market_data(market_data, Symbol, t, m)
                     ELSE market_data
               /\ message_queue' = publish_all(message_queue, published, outs)
               /\ published' = published + Len(outs)
       ELSE UNCHANGED <<bids, asks, order_map, obj, best_bid, best_ask,
                        status, ret, market_data, message_queue, published>>
    /\ calls' = calls + 1
    /\ UNCHANGED <<current_time, end_time, event_queue, agent_wakeups,
                   subscriptions, wildcard_subscriptions, pc, deliveries,
                   iter, ops, handed, owed, scheduled_wakeups>>
    /\ UNCHANGED trade_history

\* OrderBook.get_spread.
get_spread(b) ==
    IF b.best_ask = Inf \/ b.best_bid = 0 THEN Inf
    ELSE b.best_ask - b.best_bid

\* The query types of the runs: two the exchange answers with a result, and
\* one it has no branch for.
QueryTypes == {"get_market_depth", "get_spread", "other"}

QueryIds == {"q1", "q2"}

\* response_payload of _process_market_depth_query: the query type and the
\* result of the book's function.
response_payload(b, query_type, side) ==
    IF query_type = "get_market_depth"
    THEN [query_type |-> query_type,
          levels |-> get_market_depth(b, side, DefaultDepth)]
    ELSE IF query_type = "get_spread"
    THEN [query_type |-> query_type, spread |-> get_spread(b)]
    ELSE [query_type |-> query_type]

\* ExchangeAgent._process_market_depth_query on a MARKET_DEPTH message of
\* timestamp t whose payload names symbol, query_type, query_id and side.
ProcessMarketDepthQuery(symbol, query_type, query_id, side, t) ==
    /\ status = "ready"
    /\ ops < MaxQueries
    /\ \E outs \in {IF symbol \notin DOMAIN market_data THEN <<>>
                    ELSE <<Outbound(<<symbol, "MARKET_DEPTH_RESPONSE">>,
                                    response_payload(Book, query_type, side),
                                    t)>>} :
          /\ message_queue' = publish_all(message_queue, published, outs)
          /\ published' = published + Len(outs)
    /\ ops' = ops + 1
    /\ UNCHANGED <<current_time, end_time, event_queue, agent_wakeups,
                   subscriptions, wildcard_subscriptions, pc, deliveries,
                   iter, handed, owed>>
    /\ UNCHANGED <<book_vars, exchange_vars>>

\* The window of _publish_market_statistics left out: every trade of the
\* symbol.
AllTrades(history, symbol, timestamp) ==
    SelectSeq(history, LAMBDA trade : trade.symbol = symbol)

\* recent_trades of _publish_market_statistics.
recent_trades(history, symbol, timestamp) ==
    SelectSeq(history, LAMBDA trade :
                 /\ trade.timestamp >= timestamp - Interval
                 /\ trade.symbol = symbol)

\* sum(trade.quantity ...) and sum(trade.price * trade.quantity ...).
RECURSIVE total_volume(_, _)
total_volume(trades, k) ==
    IF k > Len(trades) THEN 0
    ELSE trades[k].quantity + total_volume(trades, k + 1)

RECURSIVE total_value(_, _)
total_value(trades, k) ==
    IF k > Len(trades) THEN 0
    ELSE trades[k].price * trades[k].quantity + total_value(trades, k + 1)

\* The payload of the STATS message; vwap = total_value / total_volume is
\* kept as the fraction num / den, 0.0 being 0 / 1.
stats_payload(recent, md) ==
    [volume |-> total_volume(recent, 1),
     vwap |-> IF total_volume(recent, 1) > 0
              THEN [num |-> total_value(recent, 1),
                    den |-> total_volume(recent, 1)]
              ELSE [num |-> 0, den |-> 1],
     best_bid |-> md.best_bid, best_ask |-> md.best_ask]

\* _publish_market_statistics: one STATS message for the symbol of
\* market_data, none when no symbol is initialized.
stats_messages(md, history, timestamp) ==
    IF Symbol \notin DOMAIN md THEN <<>>
    ELSE <<Outbound(<<Symbol, "STATS">>,
                    stats_payload(recent_trades(history, Symbol, timestamp),
                                  md[Symbol]),
                    timestamp)>>

\* ExchangeAgent.wakeup(current_time): ActiveAgent.wakeup drops the time
\* from scheduled_wakeups, the statistics are published, and
\* schedule_wakeup adds the next time to scheduled_wakeups.
ExchangeWakeup(t) ==
    /\ status = "ready"
    /\ ops < MaxQueries
    /\ \E outs \in {stats_messages(market_data, trade_history, t)} :
          /\ message_queue' = publish_all(message_queue, published, outs)
          /\ published' = published + Len(outs)
    /\ scheduled_wakeups' = (scheduled_wakeups \ {t}) \cup {t + Interval}
    /\ ops' = ops + 1
    /\ UNCHANGED <<current_time, end_time, event_queue, agent_wakeups,
                   subscriptions, wildcard_subscriptions, pc, deliveries,
                   iter, handed, owed>>
    /\ UNCHANGED <<book_vars, market_data>>

\* The price of an ORDER payload: a limit price or the side's sentinel.
PayloadPrices(side) == Prices \cup {IF side = "BUY" THEN Inf ELSE 0}

\* The order and cancel handlers alone, every message stamped 0.
NextExchange ==
    \/ \E id \in NewIds(MaxCalls), a \in Agents, s \in Sides,
          q \in Quantities :
          \E p \in PayloadPrices(s) : ProcessOrder(id, a, s, p, q, 0)
    \/ \E id \in KnownIds(MaxCalls) : ProcessCancel(id, 0)

\* The timestamps of the messages sent to the exchange: the first and the
\* last time of the run.
MessageTimes == {0, MaxTime}

\* Every handler of the exchange; the two agents send their orders in
\* turn, and the exchange is woken at any time.
NextMarket ==
    \/ InitializeSymbol
    \/ \E id \in NewIds(MaxCalls), s \in Sides, q \in Quantities,
          t \in MessageTimes :
          \E p \in PayloadPrices(s) : ProcessOrder(id, Caller(id), s, p, q, t)
    \/ \E id \in KnownIds(MaxCalls), t \in MessageTimes : ProcessCancel(id, t)
    \/ \E symbol \in {Symbol, Unknown}, query_type \in QueryTypes,
          query_id \in QueryIds, s \in Sides, t \in MessageTimes :
          ProcessMarketDepthQuery(symbol, query_type, query_id, s, t)
    \/ \E t \in Times : ExchangeWakeup(t)

SpecMarket == Init /\ [][NextMarket]_vars

SpecExchange == Init /\ [][NextExchange]_vars

----------------------------------------------------------------------------
\* Properties.

Returned == status = "ready"

BookVars == <<bids, asks, order_map, obj, best_bid, best_ask>>

IsAdd(r) == r.op \in {"add_limit_order", "add_market_order"}

RECURSIVE SumQuantity(_, _)
SumQuantity(objects, ids) ==
    IF ids = <<>> THEN 0
    ELSE objects[Head(ids)].quantity + SumQuantity(objects, Tail(ids))

RECURSIVE SumTrades(_)
SumTrades(trades) ==
    IF trades = <<>> THEN 0
    ELSE Head(trades).quantity + SumTrades(Tail(trades))

\* The sum over the levels at the prices P of the quantities of their orders.
RECURSIVE OrdersQuantity(_, _, _)
OrdersQuantity(objects, levels, P) ==
    IF P = {} THEN 0
    ELSE LET p == CHOOSE x \in P : TRUE
         IN  SumQuantity(objects, levels[p].orders)
             + OrdersQuantity(objects, levels, P \ {p})

\* The sum of the level aggregates of one side.
RECURSIVE LevelsQuantity(_, _)
LevelsQuantity(levels, P) ==
    IF P = {} THEN 0
    ELSE LET p == CHOOSE x \in P : TRUE
         IN  levels[p].quantity + LevelsQuantity(levels, P \ {p})

\* The places <<price, index>> of order id in the levels of one side.
Places(levels, id) ==
    UNION {{<<p, k>> : k \in {j \in DOMAIN levels[p].orders :
                                 levels[p].orders[j] = id}} :
           p \in DOMAIN levels}

InNoLevel(bidLevels, askLevels, id) ==
    Places(bidLevels, id) = {} /\ Places(askLevels, id) = {}

\* C1: after the calls made so far have returned, every level's aggregate
\* quantity is the sum of the quantities of the orders in its FIFO, and every
\* order of the order_id index sits in exactly one level, the one at its own
\* side and price.
C1_LevelsMatchOrders ==
    Returned =>
        /\ \A p \in DOMAIN bids :
              bids[p].quantity = SumQuantity(obj, bids[p].orders)
        /\ \A p \in DOMAIN asks :
              asks[p].quantity = SumQuantity(obj, asks[p].orders)
        /\ \A id \in order_map :
              LET own == IF obj[id].side = "BUY" THEN bids ELSE asks
                  other == IF obj[id].side = "BUY" THEN asks ELSE bids
              IN  /\ Places(other, id) = {}
                  /\ Cardinality(Places(own, id)) = 1
                  /\ \A pl \in Places(own, id) : pl[1] = obj[id].price

\* C2: after the calls made so far have returned, when both sides hold a
\* level, best_bid is strictly below best_ask.
C2_BookNotCrossed ==
    (Returned /\ DOMAIN bids # {} /\ DOMAIN asks # {}) => best_bid < best_ask

\* The call that leads to the next state is add_limit_order of an order
\* priced at the best price of the opposite side, which holds at least the
\* order's quantity in orders at prices the order crosses.
LimitAtBestOpposite ==
    /\ ret'.op = "add_limit_order"
    /\ LET opp == IF ret'.side = "BUY" THEN asks ELSE bids
       IN  /\ DOMAIN opp # {}
           /\ ret'.price = (IF ret'.side = "BUY" THEN best_ask ELSE best_bid)
           /\ ret'.price = peekitem(opp, IF ret'.side = "BUY" THEN "SELL"
                                         ELSE "BUY")
           /\ OrdersQuantity(obj, opp,
                  {p \in DOMAIN opp : price_condition(ret', p)})
                 >= ret'.quantity

\* C3: add_limit_order of an order priced at the best opposite price, with
\* at least its quantity resting at crossable prices, returns with the order
\* in no level and not in the order_id index; when the opposite side held
\* just that quantity and the own side was empty, the book ends with no
\* level, best_bid = 0 and best_ask = +infinity.
C3_CrossAtBestDoesNotRest ==
    [][LimitAtBestOpposite =>
          /\ status' = "ready"
          /\ ret'.order_id \notin order_map'
          /\ InNoLevel(bids', asks', ret'.order_id)
          /\ (/\ DOMAIN (IF ret'.side = "BUY" THEN bids ELSE asks) = {}
              /\ LevelsQuantity(IF ret'.side = "BUY" THEN asks ELSE bids,
                     DOMAIN (IF ret'.side = "BUY" THEN asks ELSE bids))
                    = ret'.quantity)
             => /\ DOMAIN bids' = {} /\ DOMAIN asks' = {}
                /\ best_bid' = 0 /\ best_ask' = Inf]_vars

\* C4: after the calls made so far have returned, no order of quantity 0 is
\* in the order_id index or in a level's FIFO.
C4_NoFilledOrderKept ==
    Returned =>
        /\ \A id \in order_map : obj[id].quantity # 0
        /\ \A p \in DOMAIN bids : \A k \in DOMAIN bids[p].orders :
              obj[bids[p].orders[k]].quantity # 0
        /\ \A p \in DOMAIN asks : \A k \in DOMAIN asks[p].orders :
              obj[asks[p].orders[k]].quantity # 0

\* C5: every trade the exchange records has the agent of the BUY-side order
\* as buyer_id and the agent of the SELL-side order as seller_id, whichever
\* side the incoming order is on.
C5_BuyerIsBuySide ==
    [][\A k \in (Len(trade_history) + 1)..Len(trade_history') :
          LET t == trade_history'[k]
              resting == obj[t.trade_id[2]]
          IN  /\ t.buyer_id = (IF ret'.side = "BUY" THEN ret'.agent_id
                               ELSE resting.agent_id)
              /\ t.seller_id = (IF ret'.side = "SELL" THEN ret'.agent_id
                                ELSE resting.agent_id)]_vars

\* Order r1 has priority over order r2 in the levels of the book side
\* bookSide: a strictly better price, or the same price and an earlier place.
Ahead(levels, bookSide, r1, r2) ==
    \E pl1 \in Places(levels, r1), pl2 \in Places(levels, r2) :
        \/ (IF bookSide = "SELL" THEN pl1[1] < pl2[1] ELSE pl1[1] > pl2[1])
        \/ pl1[1] = pl2[1] /\ pl1[2] < pl2[2]

\* The quantity trades[1..k-1] filled of resting order r.
RECURSIVE FilledBefore(_, _, _)
FilledBefore(trades, k, r) ==
    IF k <= 1 THEN 0
    ELSE (IF trades[k - 1].trade_id[2] = r THEN trades[k - 1].quantity ELSE 0)
         + FilledBefore(trades, k - 1, r)

\* C6: in every add call, when a trade is emitted against a resting order,
\* every order that rested at a strictly better price, or earlier at the same
\* price, has been filled completely by the trades emitted before it.
C6_PriceTimePriority ==
    [][IsAdd(ret') =>
          LET bookSide == IF ret'.side = "BUY" THEN "SELL" ELSE "BUY"
              opp == IF ret'.side = "BUY" THEN asks ELSE bids
          IN  \A k \in DOMAIN ret'.trades :
              \A r \in UNION {Range(opp[p].orders) : p \in DOMAIN opp} :
                  Ahead(opp, bookSide, r, ret'.trades[k].trade_id[2])
                  => FilledBefore(ret'.trades, k, r) = obj[r].quantity]_vars

\* C6 witness: a call traded with two resting orders of one level, and the
\* second of them keeps a remainder.
C6_Witness ==
    /\ Returned /\ IsAdd(ret) /\ Len(ret.trades) = 2
    /\ ret.trades[1].price = ret.trades[2].price
    /\ ret.trades[1].trade_id[2] # ret.trades[2].trade_id[2]
    /\ ret.trades[2].trade_id[2] \in order_map

\* C7: every trade's price is the price of the resting order it was matched
\* against; no trade of a BUY with a finite limit is above the limit and no
\* trade of a SELL with a non-zero limit is below it.
C7_TradeAtRestingPrice ==
    [][IsAdd(ret') =>
          \A k \in DOMAIN ret'.trades :
              LET t == ret'.trades[k]
              IN  /\ t.price = obj[t.trade_id[2]].price
                  /\ (ret'.side = "BUY" /\ ret'.price # Inf)
                     => t.price <= ret'.price
                  /\ (ret'.side = "SELL" /\ ret'.price # 0)
                     => t.price >= ret'.price]_vars

\* C7 witness: a limit BUY traded below its limit price.
C7_Witness ==
    /\ ret.op = "add_limit_order" /\ ret.side = "BUY"
    /\ \E k \in DOMAIN ret.trades :
          ret.trades[k].quantity > 0 /\ ret.trades[k].price < ret.price

\* The fraction of quantity that the levels of the opposite side cover is
\* below min_fill (in percent).
WouldFillBelow(side, quantity, min_fill) ==
    LET opp == IF side = "BUY" THEN asks ELSE bids
    IN  Min(quantity, LevelsQuantity(opp, DOMAIN opp)) * 100
           < min_fill * quantity

\* C8: add_market_order whose would-fill fraction is below min_fill_percent
\* returns (False, []) and leaves the whole book unchanged; a market BUY with
\* no asks and min_fill_percent > 0 is such a call.
C8_RejectedMarketOrderNoChange ==
    [][(/\ ret'.op = "add_market_order"
        /\ \/ WouldFillBelow(ret'.side, ret'.quantity, ret'.min_fill)
           \/ ~can_fill_order(Book, ret'.side, ret'.quantity, ret'.min_fill)
           \/ ret'.side = "BUY" /\ DOMAIN asks = {} /\ ret'.min_fill > 0)
       => /\ ~ret'.ok /\ ret'.trades = <<>> /\ status' = "ready"
          /\ UNCHANGED BookVars]_vars

\* C8 witness: a market BUY was rejected although the book holds asks.
C8_Witness ==
    /\ Returned /\ ret.op = "add_market_order" /\ ~ret.ok
    /\ ret.side = "BUY" /\ DOMAIN asks # {}
    /\ WouldFillBelow(ret.side, ret.quantity, ret.min_fill)

\* C9: a market BUY for the total quantity of all ask levels, with
\* min_fill_percent <= 1, is accepted, empties the ask side, and its trades'
\* quantities sum to the submitted quantity.
C9_MarketBuyOfAllAsks ==
    [][(/\ ret'.op = "add_market_order" /\ ret'.side = "BUY"
        /\ DOMAIN asks # {}
        /\ ret'.quantity = LevelsQuantity(asks, DOMAIN asks)
        /\ ret'.min_fill <= 100)
       => /\ ret'.ok
          /\ DOMAIN asks' = {}
          /\ SumTrades(ret'.trades) = ret'.quantity]_vars

\* C10: once add_market_order has returned accepted, the market order is in
\* no level and not in the order_id index, and cancel_order of its id
\* returns False.
C10_MarketOrderDoesNotRest ==
    (Returned /\ ret.op = "add_market_order" /\ ret.ok) =>
        /\ ret.order_id \notin order_map
        /\ InNoLevel(bids, asks, ret.order_id)
        /\ ~cancel_order(Book, ret.order_id).ok

\* The remaining quantity of the orders of side S in the order_id index.
RECURSIVE LiveQuantity(_, _, _)
LiveQuantity(objects, ids, S) ==
    IF ids = {} THEN 0
    ELSE LET id == CHOOSE x \in ids : TRUE
         IN  (IF objects[id].side = S THEN objects[id].quantity ELSE 0)
             + LiveQuantity(objects, ids \ {id}, S)

\* The quantity the call r brought to side S: the quantity of an order of
\* side S that the book took in (a rejected market order brings nothing).
SubmittedBy(r, S) ==
    IF IsAdd(r) /\ r.ok /\ r.side = S THEN r.quantity ELSE 0

\* The quantity the call r traded: each trade takes its quantity from one
\* BUY order and one SELL order.
TradedBy(r) == IF IsAdd(r) THEN SumTrades(r.trades) ELSE 0

\* The quantity the call r removed from side S of book objects by
\* cancellation: what the cancelled order had left.
CancelledBy(r, objects, S) ==
    IF r.op = "cancel_order" /\ r.ok /\ objects[r.order_id].side = S
    THEN objects[r.order_id].quantity ELSE 0

NotLive(id) == id \notin order_map \/ obj[id].quantity = 0

\* C12: cancel_order of an id that is not live returns False and leaves the
\* book as it was; cancel_order of the id that the call before it cancelled
\* returns False.
C12_CancelOfDeadOrder ==
    [][ret'.op = "cancel_order" =>
          /\ NotLive(ret'.order_id)
             => (~ret'.ok /\ UNCHANGED <<bids, asks, order_map, best_bid,
                                        best_ask>>)
          /\ (ret.op = "cancel_order" /\ ret.ok
              /\ ret.order_id = ret'.order_id) => ~ret'.ok]_vars

\* The order crosses nothing: the opposite side is empty or its best price
\* is beyond the order's limit.
CrossesNothing(b, order) ==
    LET opp == OppositeLevels(b, order.side)
    IN  \/ DOMAIN opp = {}
        \/ ~price_condition(order, peekitem(opp, IF order.side = "BUY"
                                                 THEN "SELL" ELSE "BUY"))

\* add_limit_order of order on book b, then cancel_order of its id.
AddThenCancel(b, order, partial) ==
    LET added == add_limit_order(b, order, partial)
    IN  [added |-> added, cancelled |-> cancel_order(added, order.order_id)]

\* C13: from every book a run reaches, add_limit_order of an order that
\* crosses nothing followed by cancel_order of that order gives back the same
\* levels, level quantities, FIFO contents, best_bid and best_ask.
C13_AddThenCancelRestores ==
    Returned =>
        \A s \in Sides, p \in Prices, q \in Quantities, e \in BOOLEAN :
            LET order == Order(calls + 1, Caller(calls + 1), s, p, q)
            IN  CrossesNothing(Book, order) =>
                \E rt \in {AddThenCancel(Book, order, e)} :
                    /\ rt.added.trades = <<>> /\ ~rt.added.spin
                    /\ order.order_id \in rt.added.order_map
                    /\ rt.cancelled.ok
                    /\ rt.cancelled.bids = bids
                    /\ rt.cancelled.asks = asks
                    /\ rt.cancelled.best_bid = best_bid
                    /\ rt.cancelled.best_ask = best_ask

\* C13 witness: the order that the call before added has just been
\* cancelled, the book holds levels on both sides, and it is a book that
\* add-then-cancel of a further order restores.
C13_Witness ==
    /\ Returned /\ ret.op = "cancel_order" /\ ret.ok
    /\ ret.order_id = calls - 1
    /\ DOMAIN bids # {} /\ DOMAIN asks # {}
    /\ \A s \in Sides, p \in Prices, q \in Quantities :
          CrossesNothing(Book, Order(calls + 1, "A", s, p, q))
          => AddThenCancel(Book, Order(calls + 1, "A", s, p, q),
                           FALSE).cancelled.bids = bids


----------------------------------------------------------------------------
\* The kernel and the message bus.
\*
\* Topics and patterns are sequences of the segments between dots:
\* "X.TRADE" is <<"X", "TRADE">>, "X.*" is <<"X", "*">>.  A message is
\* [seq, timestamp, topic, sent_at]: seq numbers the publications and stands
\* for the object's identity, sent_at is the kernel time at which it was
\* published (-1 before the run); payload and source_id, which neither the
\* bus nor the kernel reads, are left out.  message_id is a uuid4 string: the
\* order it gives to two messages of equal timestamp is any order.

\* An agent of the base class ActiveAgent: it subscribes to no topic, and
\* its receive_message and wakeup make no call.
Idle == {"C"}

\* The agents registered with the kernel, and those that are ActiveAgents.
KernelAgents == Agents \cup Idle

ActiveAgents == {"A"} \cup Idle

Topics == {<<"X", "TRADE">>, <<"X", "PRICE">>}

Patterns == {<<"X", "TRADE">>, <<"X", "*">>, <<"*", "TRADE">>, <<"*">>}

\* The segments that hold the character '*': the star alone, and a name
\* with a star in it.
StarSegments == {"*", "X*"}

\* "*" in topic_pattern.
HasStar(pattern) == \E k \in DOMAIN pattern : pattern[k] \in StarSegments

\* MessageBroker._matches_pattern.
matches_pattern(topic, pattern) ==
    IF pattern = <<"*">> THEN TRUE
    ELSE IF ~HasStar(pattern) THEN topic = pattern
    ELSE IF Len(pattern) >= 2 /\ pattern[Len(pattern)] = "*"
    THEN LET prefix == SubSeq(pattern, 1, Len(pattern) - 1)
         IN  \/ topic = prefix
             \/ /\ Len(topic) > Len(prefix)
                /\ SubSeq(topic, 1, Len(prefix)) = prefix
    ELSE IF Len(pattern) >= 2 /\ pattern[1] = "*"
    THEN LET suffix == SubSeq(pattern, 2, Len(pattern))
         IN  /\ Len(topic) > Len(suffix)
             /\ SubSeq(topic, Len(topic) - Len(suffix) + 1, Len(topic))
                   = suffix
    ELSE FALSE

\* _find_recipients with one entry per subscription that matches: an agent
\* appears once for each of its subscriptions that matches the topic.
RecipientsPerSubscription(topic) ==
    {<<a, pt>> \in Agents \X Patterns :
        \/ pt = topic /\ pt \in DOMAIN subscriptions /\ a \in subscriptions[pt]
        \/ /\ pt \in DOMAIN wildcard_subscriptions
           /\ matches_pattern(topic, pt)
           /\ a \in wildcard_subscriptions[pt]}

\* MessageBroker._find_recipients: the set of agents subscribed to topic.
find_recipients(topic) ==
    (IF topic \in DOMAIN subscriptions THEN subscriptions[topic] ELSE {})
    \cup UNION {wildcard_subscriptions[pt] :
                  pt \in {x \in DOMAIN wildcard_subscriptions :
                             matches_pattern(topic, x)}}

\* The sequences that list every element of the set S once.
Orderings(S) ==
    {f \in [1..Cardinality(S) -> S] : \A x \in S : \E i \in DOMAIN f : f[i] = x}

\* The heap popped to its end: every pending message, whatever its
\* timestamp.
PopOrdersAll(t) ==
    {f \in Orderings(message_queue) :
        \A i, j \in DOMAIN f : i < j => f[i].timestamp <= f[j].timestamp}

\* get_messages_for_timestamp: the orders in which the heap can pop the
\* messages of timestamp <= t, by timestamp and then by message_id.
PopOrders(t) ==
    {f \in Orderings({m \in message_queue : m.timestamp <= t}) :
        \A i, j \in DOMAIN f : i < j => f[i].timestamp <= f[j].timestamp}

\* The heap read but not popped: every message stays queued.
RemainingAll(t) == message_queue

\* get_messages_for_timestamp: the messages left in the heap.
remaining(t) == {m \in message_queue : m.timestamp > t}

\* The index of the first message of messages that agent a receives.
FirstFor(messages, a) ==
    SetMin({i \in DOMAIN messages : a \in find_recipients(messages[i].topic)})

\* deliver_messages, lines 101-118: recipient_messages is filled message by
\* message, each message's recipients in the set's order; handlers are then
\* called recipient by recipient, each with its messages in popped order.
RECURSIVE Flatten(_, _, _)
Flatten(messages, recipients, k) ==
    IF k > Len(recipients) THEN <<>>
    ELSE LET mine == SelectSeq(messages, LAMBDA m :
                         recipients[k] \in find_recipients(m.topic))
         IN  [i \in DOMAIN mine |-> [agent_id |-> recipients[k],
                                     message |-> mine[i]]]
             \o Flatten(messages, recipients, k + 1)

\* deliver_messages popping the messages due and calling no handler.
DeliverNothing(t) == {<<>>}

\* The sequences of handler calls deliver_messages(t) can make.
DeliverOrders(t) ==
    UNION {{Flatten(messages, recipients, 1) :
              recipients \in
                 {r \in Orderings(UNION {find_recipients(messages[i].topic) :
                                           i \in DOMAIN messages}) :
                     \A i, j \in DOMAIN r :
                        i < j => FirstFor(messages, r[i])
                                    <= FirstFor(messages, r[j])}} :
           messages \in PopOrders(t)}

\* What an agent's receive_message or wakeup does: nothing, one
\* send_message(topic, payload, timestamp), or one
\* kernel.schedule_event(timestamp, agent_id).
Effect(kind, topic, agent, timestamp) ==
    [kind |-> kind, topic |-> topic, agent_id |-> agent,
     timestamp |-> timestamp]

Effects ==
    {Effect("none", <<>>, "A", 0)}
    \cup {Effect("publish", tp, "A", t) :
            tp \in {x \in Topics : ops < MaxOps}, t \in Times}
    \cup {Effect("schedule", <<>>, a, t) :
            a \in {x \in KernelAgents : ops < MaxOps}, t \in Times}

\* Heap push and pop on the event queue.
heappush(queue, event) ==
    Put(queue, event, IF event \in DOMAIN queue THEN queue[event] + 1 ELSE 1)

\* schedule_event pushing the event and recording the wakeup before it
\* compares the timestamp with the clock.
ApplyPushThenCheck(eff, at) ==
    /\ IF eff.kind = "publish"
       THEN /\ message_queue' = message_queue \cup
                  {[seq |-> published + 1, timestamp |-> eff.timestamp,
                    topic |-> eff.topic, sent_at |-> at]}
            /\ published' = published + 1
       ELSE UNCHANGED <<message_queue, published>>
    /\ IF eff.kind = "schedule"
       THEN /\ event_queue' = heappush(event_queue,
                                       <<eff.timestamp, eff.agent_id>>)
            /\ agent_wakeups' =
                  Put(agent_wakeups, eff.timestamp,
                      (IF eff.timestamp \in DOMAIN agent_wakeups
                       THEN agent_wakeups[eff.timestamp] ELSE {})
                      \cup {eff.agent_id})
       ELSE UNCHANGED <<event_queue, agent_wakeups>>
    /\ ops' = IF eff.kind = "none" THEN ops ELSE ops + 1

\* The call eff of an agent, made when the kernel time is at:
\* MessageBroker.publish or Kernel.schedule_event.
Apply(eff, at) ==
    /\ IF eff.kind = "publish"
       THEN /\ message_queue' = message_queue \cup
                  {[seq |-> published + 1, timestamp |-> eff.timestamp,
                    topic |-> eff.topic, sent_at |-> at]}
            /\ published' = published + 1
       ELSE UNCHANGED <<message_queue, published>>
    /\ IF eff.kind = "schedule" /\ eff.timestamp >= current_time
       THEN /\ event_queue' = heappush(event_queue,
                                       <<eff.timestamp, eff.agent_id>>)
            /\ agent_wakeups' =
                  Put(agent_wakeups, eff.timestamp,
                      (IF eff.timestamp \in DOMAIN agent_wakeups
                       THEN agent_wakeups[eff.timestamp] ELSE {})
                      \cup {eff.agent_id})
       ELSE UNCHANGED <<event_queue, agent_wakeups>>
    /\ ops' = IF eff.kind = "none" THEN ops ELSE ops + 1

\* schedule_event raises: the timestamp is in the past.
Raises(eff) == eff.kind = "schedule" /\ eff.timestamp < current_time

\* The wakeups owed after the call eff: an accepted schedule_event for an
\* active agent is owed a wakeup.
OwedAfter(owedNow, eff) ==
    IF eff.kind = "schedule" /\ ~Raises(eff) /\ eff.agent_id \in ActiveAgents
    THEN owedNow \cup {<<eff.timestamp, eff.agent_id>>}
    ELSE owedNow

\* Agent.subscribe(topic_pattern) before the run.
Subscribe(a, pattern) ==
    /\ pc = "idle"
    /\ ops < MaxOps
    /\ IF HasStar(pattern)
       THEN /\ wildcard_subscriptions' =
                  Put(wildcard_subscriptions, pattern,
                      (IF pattern \in DOMAIN wildcard_subscriptions
                       THEN wildcard_subscriptions[pattern] ELSE {})
                      \cup {a})
            /\ UNCHANGED subscriptions
       ELSE /\ subscriptions' =
                  Put(subscriptions, pattern,
                      (IF pattern \in DOMAIN subscriptions
                       THEN subscriptions[pattern] ELSE {}) \cup {a})
            /\ UNCHANGED wildcard_subscriptions
    /\ ops' = ops + 1
    /\ UNCHANGED <<current_time, end_time, event_queue, agent_wakeups,
                   message_queue, pc, deliveries, iter, published, handed,
                   owed>>
    /\ UNCHANGED <<book_vars, exchange_vars>>

\* Kernel.schedule_event(timestamp, agent_id) before the run.
ScheduleEvent(t, a) ==
    /\ pc = "idle"
    /\ \E eff \in {e \in Effects : e.kind = "schedule" /\ e.agent_id = a
                                   /\ e.timestamp = t} :
          /\ Apply(eff, 0 - 1)
          /\ owed' = OwedAfter(owed, eff)
    /\ UNCHANGED <<current_time, end_time, subscriptions,
                   wildcard_subscriptions, pc, deliveries, iter, handed>>
    /\ UNCHANGED <<book_vars, exchange_vars>>

\* An id under which no agent is registered with the kernel.
Unregistered == {"Z"}

\* Kernel.schedule_agent_wakeup(agent_id, timestamp) before the run: an id
\* that is not registered raises ValueError, a registered one goes to
\* schedule_event.
ScheduleAgentWakeup(a, t) ==
    /\ pc = "idle"
    /\ ops < MaxOps
    /\ IF a \notin KernelAgents
       THEN /\ pc' = "ValueError"
            /\ ops' = ops + 1
            /\ UNCHANGED <<event_queue, agent_wakeups, message_queue,
                           published, owed>>
       ELSE /\ \E eff \in {Effect("schedule", <<>>, a, t)} :
                  /\ Apply(eff, 0 - 1)
                  /\ owed' = OwedAfter(owed, eff)
            /\ pc' = pc
    /\ UNCHANGED <<current_time, end_time, subscriptions,
                   wildcard_subscriptions, deliveries, iter, handed>>
    /\ UNCHANGED <<book_vars, exchange_vars>>

\* Agent.send_message(topic, payload, timestamp) before the run.
SendMessage(tp, t) ==
    /\ pc = "idle"
    /\ ops < MaxOps
    /\ \E eff \in {Effect("publish", tp, "A", t)} : Apply(eff, 0 - 1)
    /\ UNCHANGED <<current_time, end_time, subscriptions,
                   wildcard_subscriptions, pc, deliveries, iter, handed,
                   owed>>
    /\ UNCHANGED <<book_vars, exchange_vars>>

\* Kernel.run(end_time), lines 41-43.
Run(t) ==
    /\ pc = "idle"
    /\ end_time' = t
    /\ current_time' = 0
    /\ pc' = "loop"
    /\ UNCHANGED <<event_queue, agent_wakeups, subscriptions,
                   wildcard_subscriptions, message_queue, deliveries, iter,
                   published, ops, handed, owed>>
    /\ UNCHANGED <<book_vars, exchange_vars>>

\* The loop of run taking the timestamp of the first event as it is.
HeadTimestamp(head) == head

\* Lines 49-54: the timestamp of the first event, or end_time when the
\* event is later than that.
next_timestamp(head) == IF head > end_time THEN end_time ELSE head

\* The loop of run with an event queued, lines 47-60, and
\* _process_events_at_timestamp up to the first handler call, lines 72-78
\* and get_messages_for_timestamp: advance the clock, pop the events of this
\* timestamp, pop the messages due and group them by recipient.
Advance ==
    /\ pc = "loop"
    /\ current_time < end_time
    /\ DOMAIN event_queue # {}
    /\ LET head == SetMin({e[1] : e \in DOMAIN event_queue})
           timestamp == next_timestamp(head)
       IN  /\ current_time' = timestamp
           /\ event_queue' = Restrict(event_queue,
                                {e \in DOMAIN event_queue :
                                    e[1] # timestamp})
           /\ deliveries' \in DeliverOrders(timestamp)
           /\ message_queue' = remaining(timestamp)
    /\ pc' = "deliver"
    /\ UNCHANGED <<end_time, agent_wakeups, subscriptions,
                   wildcard_subscriptions, iter, published, ops,
                   handed, owed>>
    /\ UNCHANGED <<book_vars, exchange_vars>>

\* The loop of run with no event queued, leaving the clock where it is.
AdvanceNowhere ==
    /\ pc = "loop"
    /\ current_time < end_time
    /\ DOMAIN event_queue = {}
    /\ UNCHANGED vars

\* The loop of run with no event queued, lines 61-63.
AdvanceToEnd ==
    /\ pc = "loop"
    /\ current_time < end_time
    /\ DOMAIN event_queue = {}
    /\ current_time' = end_time
    /\ UNCHANGED <<end_time, event_queue, agent_wakeups, subscriptions,
                   wildcard_subscriptions, message_queue, pc, deliveries,
                   iter, published, ops, handed, owed>>
    /\ UNCHANGED <<book_vars, exchange_vars>>

\* After the loop, line 66: deliver_messages(current_time) up to the first
\* handler call.
Flush ==
    /\ pc = "loop"
    /\ ~(current_time < end_time)
    /\ deliveries' \in DeliverOrders(current_time)
    /\ message_queue' = remaining(current_time)
    /\ pc' = "flush"
    /\ UNCHANGED <<current_time, end_time, event_queue, agent_wakeups,
                   subscriptions, wildcard_subscriptions, iter, published,
                   ops, handed, owed>>
    /\ UNCHANGED <<book_vars, exchange_vars>>

\* deliver_messages, line 118: the next handler call, and what the agent's
\* receive_message does.
ReceiveMessage(eff) ==
    /\ pc \in {"deliver", "flush"}
    /\ deliveries # <<>>
    /\ LET d == Head(deliveries)
       IN  /\ handed' = handed \cup {<<d.message, d.agent_id>>}
           /\ Apply(eff, current_time)
    /\ deliveries' = Tail(deliveries)
    /\ owed' = OwedAfter(owed, eff)
    /\ pc' = IF Raises(eff) THEN "ValueError" ELSE pc
    /\ UNCHANGED <<current_time, end_time, subscriptions,
                   wildcard_subscriptions, iter>>
    /\ UNCHANGED <<book_vars, exchange_vars>>

\* The wakeup set at the timestamp being processed.
WakeupSet ==
    IF current_time \in DOMAIN agent_wakeups THEN agent_wakeups[current_time]
    ELSE {}

\* _process_events_at_timestamp, lines 81-82: the messages are delivered,
\* the loop over the wakeup set begins.
StartWakeups ==
    /\ pc = "deliver"
    /\ deliveries = <<>>
    /\ iter' = [size |-> Cardinality(WakeupSet), left |-> WakeupSet]
    /\ pc' = "wakeups"
    /\ UNCHANGED <<current_time, end_time, event_queue, agent_wakeups,
                   subscriptions, wildcard_subscriptions, message_queue,
                   deliveries, published, ops, handed, owed>>
    /\ UNCHANGED <<book_vars, exchange_vars>>

\* Lines 82-86: the set iterator yields the next agent, in the set's order;
\* an ActiveAgent is woken, and its wakeup does eff.
Wakeup(a, eff) ==
    /\ pc = "wakeups"
    /\ Cardinality(WakeupSet) = iter.size
    /\ a \in iter.left
    /\ iter' = [iter EXCEPT !.left = @ \ {a}]
    /\ IF a \in ActiveAgents
       THEN /\ a \in Idle => eff.kind = "none"
            /\ Apply(eff, current_time)
            /\ owed' = OwedAfter(owed \ {<<current_time, a>>}, eff)
            /\ pc' = IF Raises(eff) THEN "ValueError" ELSE pc
       ELSE /\ eff.kind = "none"
            /\ UNCHANGED <<message_queue, published, event_queue,
                           agent_wakeups, ops, owed, pc>>
    /\ UNCHANGED <<current_time, end_time, subscriptions,
                   wildcard_subscriptions, deliveries, handed>>
    /\ UNCHANGED <<book_vars, exchange_vars>>

\* Line 82: the wakeup set grew while it was iterated; the iterator raises
\* RuntimeError (Set changed size during iteration) and run is left.
WakeupsRaise ==
    /\ pc = "wakeups"
    /\ Cardinality(WakeupSet) # iter.size
    /\ pc' = "RuntimeError"
    /\ UNCHANGED <<current_time, end_time, event_queue, agent_wakeups,
                   subscriptions, wildcard_subscriptions, message_queue,
                   deliveries, iter, published, ops, handed, owed>>
    /\ UNCHANGED <<book_vars, exchange_vars>>

\* Lines 88-90: the iterator is exhausted; the wakeup entry of this
\* timestamp is deleted and the loop of run goes on.
EndWakeups ==
    /\ pc = "wakeups"
    /\ Cardinality(WakeupSet) = iter.size
    /\ iter.left = {}
    /\ agent_wakeups' = Restrict(agent_wakeups,
                                 DOMAIN agent_wakeups \ {current_time})
    /\ pc' = "loop"
    /\ UNCHANGED <<current_time, end_time, event_queue, subscriptions,
                   wildcard_subscriptions, message_queue, deliveries, iter,
                   published, ops, handed, owed>>
    /\ UNCHANGED <<book_vars, exchange_vars>>

\* Line 67: the flush has made its handler calls; run returns.
Return ==
    /\ pc = "flush"
    /\ deliveries = <<>>
    /\ pc' = "done"
    /\ UNCHANGED <<current_time, end_time, event_queue, agent_wakeups,
                   subscriptions, wildcard_subscriptions, message_queue,
                   deliveries, iter, published, ops, handed, owed>>
    /\ UNCHANGED <<book_vars, exchange_vars>>

NextKernel ==
    \/ \E a \in Agents, pt \in Patterns : Subscribe(a, pt)
    \/ \E t \in Times, a \in KernelAgents : ScheduleEvent(t, a)
    \/ \E t \in Times, a \in KernelAgents \cup Unregistered :
          ScheduleAgentWakeup(a, t)
    \/ \E tp \in Topics, t \in Times : SendMessage(tp, t)
    \/ \E t \in Times : Run(t)
    \/ Advance
    \/ AdvanceToEnd
    \/ Flush
    \/ \E eff \in {e \in Effects : deliveries # <<>>} : ReceiveMessage(eff)
    \/ StartWakeups
    \/ \E a \in iter.left, eff \in Effects : Wakeup(a, eff)
    \/ WakeupsRaise
    \/ EndWakeups
    \/ Return

SpecKernel == Init /\ [][NextKernel]_vars

\* ---- The bus alone: one subscription or message more than none, over
\* patterns and topics of every shape.

\* At most BusOps calls of subscribe and send_message before the run.
BusOps == 2

\* Topics and patterns with the star in every position: "X.*.T" is
\* <<"X", "*", "T">>, "X*" is <<"X*">>.
BusTopics ==
    {<<"X">>, <<"X", "T">>, <<"X", "T", "T">>, <<"T">>, <<"T", "X">>,
     <<"X", "*">>, <<"*", "T">>, <<"X", "*", "T">>, <<"X*">>, <<"*">>,
     <<"T", "X", "*">>}

BusPatterns ==
    {<<"X", "T">>, <<"X">>, <<"*">>, <<"X", "*">>, <<"*", "T">>,
     <<"*", "*">>, <<"X*">>, <<"X", "*", "T">>, <<"*", "X", "*">>,
     <<"X", "*", "*">>}

\* A handler that makes no call.
NoEffect == Effect("none", <<>>, "A", 0)

NextBus ==
    \/ \E a \in Agents, pt \in {x \in BusPatterns : ops < BusOps} :
          Subscribe(a, pt)
    \/ \E tp \in {x \in BusTopics : ops < BusOps}, t \in Times :
          SendMessage(tp, t)
    \/ \E t \in Times : Run(t)
    \/ AdvanceToEnd
    \/ Flush
    \/ \E eff \in {e \in {NoEffect} : deliveries # <<>>} : ReceiveMessage(eff)
    \/ Return

SpecBus == Init /\ [][NextBus]_vars

\* The calls of handlers and wakeups that schedule only strictly later
\* events.
LaterEffects ==
    {e \in Effects : e.kind = "schedule" => e.timestamp > current_time}

\* The steps of run itself, with such handlers and wakeups: the wakeup set
\* of the timestamp at hand cannot grow, and the iterator does not raise.
RunStepLater ==
    \/ Advance
    \/ AdvanceToEnd
    \/ Flush
    \/ \E eff \in {e \in LaterEffects : deliveries # <<>>} :
          ReceiveMessage(eff)
    \/ StartWakeups
    \/ \E a \in iter.left, eff \in LaterEffects : Wakeup(a, eff)
    \/ EndWakeups
    \/ Return

NextKernelLater ==
    \/ \E a \in Agents, pt \in Patterns : Subscribe(a, pt)
    \/ \E t \in Times, a \in KernelAgents : ScheduleEvent(t, a)
    \/ \E t \in Times, a \in KernelAgents \cup Unregistered :
          ScheduleAgentWakeup(a, t)
    \/ \E tp \in Topics, t \in Times : SendMessage(tp, t)
    \/ \E t \in Times : Run(t)
    \/ RunStepLater

\* One thread executes the loop, the handlers and the wakeups, and each
\* handler and wakeup returns: run, once called, goes on executing.
SpecKernelLater == Init /\ [][NextKernelLater]_vars /\ WF_vars(RunStepLater)


----------------------------------------------------------------------------
\* Properties of the kernel and the bus.

\* The step is a handler call: deliver_messages invokes receive_message of
\* the agent of the first delivery, with its message.
IsReceive == deliveries # <<>> /\ deliveries' = Tail(deliveries)

\* The step is a wakeup call: the wakeup loop invokes wakeup(current_time)
\* on an active agent.
IsWakeup ==
    /\ pc = "wakeups"
    /\ iter'.left # iter.left
    /\ (iter.left \ iter'.left) \subseteq ActiveAgents

\* The step begins a delivery pass: deliver_messages pops the messages due.
IsPass == pc = "loop" /\ pc' \in {"deliver", "flush"}

\* C14: whenever a handler is invoked with a message during a run, the
\* kernel's current_time is at least the message's timestamp.
C14_NoEarlyDelivery ==
    [][IsReceive =>
          current_time >= Head(deliveries).message.timestamp]_vars

\* C14 witness: in the delivery pass of a timestamp, a handler has been
\* called with a message stamped before it, while a message stamped after it
\* stays queued.
C14_Witness ==
    /\ pc = "deliver"
    /\ \E h \in handed : h[1].timestamp < current_time
    /\ \E m \in message_queue : m.timestamp > current_time

\* C15: a message stamped t and published while the kernel processes time
\* t, with a subscriber, is no longer pending when current_time moves past t.
C15_SameInstantVisibility ==
    [][current_time' > current_time =>
          \A m \in message_queue :
              ~(/\ m.sent_at = current_time
                /\ m.timestamp = current_time
                /\ find_recipients(m.topic) # {})]_vars

\* C16: whenever the kernel invokes wakeup(t), the bus holds no message of
\* timestamp <= t that has a subscriber.
C16_WakeupSeesAllMessages ==
    [][IsWakeup =>
          \A m \in message_queue :
              m.timestamp <= current_time
              => find_recipients(m.topic) = {}]_vars

\* The messages of the popped sequence f that agent a is handed, in order.
HandedTo(f, a) ==
    SelectSeq(f, LAMBDA m : a \in find_recipients(m.topic))

\* C17: determinism.  A second run of the same registrations, initial events
\* and agent logic stands in the same state as this one for as long as both
\* have made the same handler calls; the two deliver messages of equal
\* timestamp in the same order only if, at every delivery pass, every order
\* in which the heap can pop the due messages hands each agent the same
\* sequence of messages.
C17_Deterministic ==
    [][IsPass =>
          \A f, g \in PopOrders(current_time') :
              \A a \in Agents : HandedTo(f, a) = HandedTo(g, a)]_vars

\* C18: when run(end_time) has returned, the bus holds no message of
\* timestamp <= end_time that has a subscriber.
C18_NothingPendingAtReturn ==
    pc = "done" =>
        \A m \in message_queue :
            m.timestamp <= end_time => find_recipients(m.topic) = {}

\* C19: no message is handed to the same agent twice in a run, however many
\* of the agent's subscriptions match its topic.
C19_HandedAtMostOnce ==
    [][IsReceive =>
          <<Head(deliveries).message, Head(deliveries).agent_id>>
              \notin handed]_vars

\* C19 witness: a message has been handed to an agent that matches its topic
\* through an exact subscription and a wildcard subscription, and the run
\* has returned.
C19_Witness ==
    /\ pc = "done"
    /\ \E h \in handed :
          /\ h[1].topic \in DOMAIN subscriptions
          /\ h[2] \in subscriptions[h[1].topic]
          /\ \E pt \in DOMAIN wildcard_subscriptions :
                /\ matches_pattern(h[1].topic, pt)
                /\ h[2] \in wildcard_subscriptions[pt]

\* C20: the run is not left by an error of the wakeup loop, and when it has
\* returned every schedule_event(t, a) accepted for an active agent with
\* t <= end_time has been followed by a wakeup(t) of a.
C20_ScheduledWakeupHappens ==
    /\ pc # "RuntimeError"
    /\ pc = "done" => \A o \in owed : o[1] > end_time


\* C24: a schedule_event with a timestamp before current_time, and a
\* schedule_agent_wakeup for an id that is not registered, raise and leave
\* the event heap and the wakeup index as they were.
C24_RejectedScheduleChangesNothing ==
    [][pc # "ValueError" /\ pc' = "ValueError" =>
          /\ event_queue' = event_queue
          /\ agent_wakeups' = agent_wakeups]_vars

\* C24 witness: a handler or a wakeup scheduled an event in the past while
\* the heap and the index held entries.
C24_Witness ==
    /\ pc = "ValueError"
    /\ current_time > 0
    /\ DOMAIN event_queue # {}
    /\ DOMAIN agent_wakeups # {}

\* C29: the handler calls of one deliver_messages call follow the order in
\* which the messages are popped: a message of a smaller timestamp is popped
\* first, so no call for a message precedes, on any recipient, a call for a
\* message of a smaller timestamp.
C29_CallsInPoppedOrder ==
    [][IsPass =>
          \A i, j \in DOMAIN deliveries' :
              i < j => deliveries'[i].message.timestamp
                          <= deliveries'[j].message.timestamp]_vars

\* C30: a delivery pass takes every message due off the queue and lines up
\* a handler call for each of its recipients; no wakeup is invoked while
\* one of these calls is still to be made; a publication makes no handler
\* call: it hands nothing beyond the call that makes it and lines up none.
C30_PendingDeliveredBeforeWakeups ==
    [][/\ IsPass =>
             \A m \in message_queue :
                 m.timestamp <= current_time' =>
                    /\ m \notin message_queue'
                    /\ \A a \in find_recipients(m.topic) :
                          \E k \in DOMAIN deliveries' :
                             deliveries'[k] = [agent_id |-> a, message |-> m]
       /\ IsWakeup => deliveries = <<>>
       /\ published' # published =>
             /\ handed' \ handed \subseteq
                   {<<deliveries[k].message, deliveries[k].agent_id>> :
                       k \in {x \in DOMAIN deliveries : x = 1}}
             /\ \/ deliveries' = deliveries
                \/ deliveries # <<>> /\ deliveries' = Tail(deliveries)]_vars

\* C30 witness: a wakeup at the first timestamp has been made after a
\* message published before the run was handed to its subscriber.
C30_Witness ==
    /\ pc = "wakeups"
    /\ Cardinality(iter.left) < iter.size
    /\ \E h \in handed : h[1].sent_at < 0 /\ h[1].timestamp <= current_time

\* C21: an agent scheduled for timestamp t, however many times, before the
\* kernel processes t is woken exactly once at t: every wakeup answers a
\* schedule_event not yet answered, the k calls for one <<t, agent>> being
\* one entry, and when the wakeup loop of t is left, by its end or by the
\* error of its iterator, no active agent of the wakeup set is left unwoken.
C21_OneWakeupPerScheduledAgent ==
    [][/\ IsWakeup =>
             \A a \in iter.left \ iter'.left : <<current_time, a>> \in owed
       /\ pc = "wakeups" /\ pc' \in {"loop", "RuntimeError"} =>
             iter.left \cap ActiveAgents = {}]_vars

\* C23: when every handler and wakeup returns and schedules only strictly
\* later events, run(end_time) returns, and when it has returned
\* current_time = end_time; the wakeup set is not changed under its iterator.
C23_RunReturnsAtEndTime ==
    /\ (pc = "loop") ~> (pc = "done")
    /\ [](pc = "done" => current_time = end_time)
    /\ [](pc = "wakeups" => Cardinality(WakeupSet) = iter.size)

\* C23 witness: run has returned with end_time > 0 while the event queue
\* still holds an event later than end_time.
C23_Witness ==
    /\ pc = "done"
    /\ end_time > 0
    /\ \E e \in DOMAIN event_queue : e[1] > end_time


\* The patterns agent a has subscribed to.
SubscribedPatterns(a) ==
    {pt \in DOMAIN subscriptions : a \in subscriptions[pt]}
    \cup {pt \in DOMAIN wildcard_subscriptions :
             a \in wildcard_subscriptions[pt]}

\* topic starts with prefix and a dot; topic ends with a dot and suffix.
StartsWith(topic, prefix) ==
    Len(topic) > Len(prefix) /\ SubSeq(topic, 1, Len(prefix)) = prefix

EndsWith(topic, suffix) ==
    /\ Len(topic) > Len(suffix)
    /\ SubSeq(topic, Len(topic) - Len(suffix) + 1, Len(topic)) = suffix

\* The four cases in which a topic matches a pattern: exact, PREFIX.*,
\* *.SUFFIX and the universal star, PREFIX and SUFFIX being names without a
\* star.
MatchCases(topic, pattern) ==
    \/ ~HasStar(pattern) /\ pattern = topic
    \/ /\ Len(pattern) >= 2 /\ pattern[Len(pattern)] = "*"
       /\ LET P == SubSeq(pattern, 1, Len(pattern) - 1)
          IN  ~HasStar(P) /\ (topic = P \/ StartsWith(topic, P))
    \/ /\ Len(pattern) >= 2 /\ pattern[1] = "*"
       /\ LET S == SubSeq(pattern, 2, Len(pattern))
          IN  ~HasStar(S) /\ EndsWith(topic, S)
    \/ pattern = <<"*">>

\* C25: a topic matches a pattern exactly in the cases exact, 'P.*', '*.S'
\* and '*', and every other pattern with a star matches no topic: in a
\* delivery pass, a message is lined up for an agent if and only if one of
\* the agent's patterns matches its topic by one of the four cases.
C25_MatchExactlyFourCases ==
    [][IsPass =>
         \A m \in message_queue \ message_queue' : \A a \in Agents :
            (\E k \in DOMAIN deliveries' :
                deliveries'[k] = [agent_id |-> a, message |-> m])
            <=> \E pt \in SubscribedPatterns(a) : MatchCases(m.topic, pt)]_vars

\* The message published as publication number n.
Publication(queue, n) == CHOOSE m \in queue : m.seq = n

\* The step is an ORDER message handled by the exchange, accepted by the
\* book, the handler returning.
IsAcceptedOrder ==
    /\ calls' = calls + 1
    /\ IsAdd(ret') /\ ret'.ok
    /\ status' = "ready"
    /\ Symbol \in DOMAIN market_data'

\* C26: for every accepted ORDER message with timestamp t (the timestamp
\* _update_market_data records), the exchange appends each resulting trade
\* to trade_history and publishes one TRADE message per trade, then one
\* PRICE and one ORDERBOOK message, every one of them with timestamp t.
C26_OrderPublications ==
    [][IsAcceptedOrder =>
         LET k == Len(ret'.trades)
             t == market_data'[Symbol].timestamp
             n == Len(trade_history)
         IN  /\ Len(trade_history') = n + k
             /\ SubSeq(trade_history', 1, n) = trade_history
             /\ \A i \in 1..k :
                   /\ trade_history'[n + i].trade_id = ret'.trades[i].trade_id
                   /\ trade_history'[n + i].price = ret'.trades[i].price
                   /\ trade_history'[n + i].quantity = ret'.trades[i].quantity
             /\ published' = published + k + 2
             /\ message_queue \subseteq message_queue'
             /\ {m.seq : m \in message_queue' \ message_queue}
                   = (published + 1)..(published + k + 2)
             /\ Cardinality(message_queue' \ message_queue) = k + 2
             /\ \A i \in 1..k :
                   LET m == Publication(message_queue', published + i)
                   IN  /\ m.topic = <<Symbol, "TRADE">>
                       /\ m.payload.trade_id = ret'.trades[i].trade_id
                       /\ m.payload.price = ret'.trades[i].price
                       /\ m.payload.quantity = ret'.trades[i].quantity
             /\ Publication(message_queue', published + k + 1).topic
                   = <<Symbol, "PRICE">>
             /\ Publication(message_queue', published + k + 2).topic
                   = <<Symbol, "ORDERBOOK">>
             /\ \A m \in message_queue' \ message_queue : m.timestamp = t]_vars

\* An order of timestamp MaxTime was accepted with a trade: the queue holds
\* its TRADE, PRICE and ORDERBOOK messages, in this order.
C26_Witness ==
    /\ ret.op = "add_limit_order" /\ ret.ok /\ Len(ret.trades) = 1
    /\ status = "ready"
    /\ \E m \in message_queue :
          /\ m.topic = <<Symbol, "TRADE">> /\ m.timestamp = MaxTime
          /\ m.seq + 2 = published
          /\ trade_history[Len(trade_history)].timestamp = MaxTime
          /\ \E p, o \in message_queue :
                /\ p.topic = <<Symbol, "PRICE">> /\ p.seq = m.seq + 1
                /\ o.topic = <<Symbol, "ORDERBOOK">> /\ o.seq = m.seq + 2
                /\ p.timestamp = MaxTime /\ o.timestamp = MaxTime

\* The messages published in the step.
NewMessages == message_queue' \ message_queue

\* C27: for every MARKET_DEPTH query on an initialized symbol the exchange
\* publishes one MARKET_DEPTH_RESPONSE whose payload carries the query_id of
\* the query, and for an unknown symbol it publishes nothing: every
\* response published has a query_id, one of the ids the queries carry, and
\* no message is ever published for the symbol that is not initialized.
C27_ResponseCarriesQueryId ==
    /\ [][\A m \in NewMessages :
             m.topic[2] = "MARKET_DEPTH_RESPONSE"
                => /\ "query_id" \in DOMAIN m.payload
                   /\ m.payload.query_id \in QueryIds]_vars
    /\ [](\A m \in message_queue : m.topic[1] # Unknown)

\* The sum of f over the indices S.
RECURSIVE SumAt(_, _)
SumAt(f, S) ==
    IF S = {} THEN 0
    ELSE f[CHOOSE x \in S : TRUE] + SumAt(f, S \ {CHOOSE x \in S : TRUE})

\* The trades of the symbol with timestamp >= T - interval, by their place
\* in trade_history.
Window(T) ==
    {i \in DOMAIN trade_history :
        /\ trade_history[i].symbol = Symbol
        /\ trade_history[i].timestamp >= T - Interval}

\* C28: the STATS message published at wakeup time T reports volume equal to
\* the sum of the quantities of the symbol's trades with timestamp
\* >= T - interval, and vwap equal to the sum of price * quantity over those
\* trades divided by that volume, or 0 when the window holds no trade.
C28_StatsOverWindow ==
    [][\A m \in NewMessages :
          m.topic = <<Symbol, "STATS">>
             => LET W == Window(m.timestamp)
                    volume == SumAt([i \in DOMAIN trade_history |->
                                        trade_history[i].quantity], W)
                    value == SumAt([i \in DOMAIN trade_history |->
                                       trade_history[i].price
                                       * trade_history[i].quantity], W)
                IN  /\ m.payload.volume = volume
                    /\ IF W = {} THEN m.payload.vwap.num = 0
                       ELSE m.payload.vwap.num * volume
                               = value * m.payload.vwap.den]_vars

\* The statistics were just published at time T, with a trade inside the
\* window and an older trade outside it.
C28_Witness ==
    \E m \in message_queue :
       /\ m.topic = <<Symbol, "STATS">>
       /\ m.seq = published
       /\ m.payload.volume > 0
       /\ Window(m.timestamp) # {}
       /\ \E i \in DOMAIN trade_history :
             trade_history[i].timestamp < m.timestamp - Interval

\* C22: once the exchange has initialized a symbol and is woken at time t,
\* the kernel holds a wakeup of the exchange for t + interval: the event is
\* in the kernel's queue and the exchange is in the wakeup set of that time.
C22_WakeupRescheduledWithKernel ==
    [][\A m \in NewMessages :
          m.topic = <<Symbol, "STATS">>
             => /\ <<m.timestamp + Interval, ExchangeId>> \in DOMAIN event_queue'
                /\ m.timestamp + Interval \in DOMAIN agent_wakeups'
                /\ ExchangeId \in agent_wakeups'[m.timestamp + Interval]]_vars

\* C31: after every book operation returns, best_bid is the highest price
\* among the bid levels, or 0 when there is none, and best_ask is the lowest
\* price among the ask levels, or +infinity when there is none.
C31_BestPricesAreTopOfBook ==
    Returned =>
       /\ best_bid = (IF DOMAIN bids = {} THEN 0 ELSE SetMax(DOMAIN bids))
       /\ best_ask = (IF DOMAIN asks = {} THEN Inf ELSE SetMin(DOMAIN asks))

\* A cancel returned True and took the last ask level away while a bid
\* level stays: best_ask is back at +infinity.
C31_Witness ==
    /\ Returned
    /\ ret.op = "cancel_order" /\ ret.ok
    /\ DOMAIN asks = {} /\ DOMAIN bids # {}
    /\ best_ask = Inf /\ best_bid > 0

\* The step is a cancel_order call that returned True.
IsCancelled == calls' = calls + 1 /\ ret'.op = "cancel_order" /\ ret'.ok

\* Cancelling order id, of quantity q at price p, took exactly that order
\* out of the side that was before and is after: the other levels are as
\* they were, and the level at p is gone when no other order is left in it,
\* and else keeps the other orders in their order with the aggregate
\* lowered by q.
RemovedFrom(before, after, id, p, q) ==
    /\ DOMAIN after \subseteq DOMAIN before
    /\ \A x \in DOMAIN before \ {p} : x \in DOMAIN after /\ after[x] = before[x]
    /\ p \in DOMAIN before =>
          LET others == SelectSeq(before[p].orders, LAMBDA o : o # id)
          IN  IF others = <<>> THEN p \notin DOMAIN after
              ELSE /\ p \in DOMAIN after
                   /\ after[p].orders = others
                   /\ after[p].quantity = before[p].quantity - q

\* C32: a successful cancel_order(id) removes exactly that order: the other
\* orders of its level keep their FIFO order and their quantities, the
\* level's aggregate drops by the order's remaining quantity, the level is
\* deleted when it has no order left, the id leaves the order_id index, and
\* every other level and the opposite side are unchanged.
C32_CancelRemovesExactlyTheOrder ==
    [][IsCancelled =>
         LET id == ret'.order_id
             order == obj[id]
         IN  /\ order_map' = order_map \ {id}
             /\ \A k \in order_map' : obj'[k] = obj[k]
             /\ IF order.side = "BUY"
                THEN /\ asks' = asks
                     /\ RemovedFrom(bids, bids', id, order.price,
                                    order.quantity)
                ELSE /\ bids' = bids
                     /\ RemovedFrom(asks, asks', id, order.price,
                                    order.quantity)]_vars

\* The step is an add_limit_order call with execute_partial_market = true
\* that returned.
IsPartialMarketAdd ==
    /\ calls' = calls + 1
    /\ ret'.op = "add_limit_order" /\ ret'.partial
    /\ status' = "ready"

\* The quantity the order of the call is left with: that of its object when
\* the book references it, 0 when the order was filled before it rested.
RemainingAfter == IF ret'.order_id \in DOMAIN obj'
                  THEN obj'[ret'.order_id].quantity ELSE 0

\* C33: add_limit_order with execute_partial_market = true keeps the order's
\* accounting consistent: the trades' quantities plus the remaining quantity
\* equal the submitted quantity; the order is in the order_id index and in
\* a price level if and only if its remaining quantity is greater than 0;
\* with no opposite level the order's price reaches, it produces no trade
\* and rests with its full quantity.
C33_PartialMarketAccounting ==
    [][IsPartialMarketAdd =>
         LET id == ret'.order_id
             opposite == IF ret'.side = "BUY" THEN asks ELSE bids
         IN  /\ SumTrades(ret'.trades) + RemainingAfter = ret'.quantity
             /\ id \in order_map' <=> RemainingAfter > 0
             /\ ~InNoLevel(bids', asks', id) <=> RemainingAfter > 0
             /\ (\A p \in DOMAIN opposite :
                    ~price_condition([side |-> ret'.side,
                                      price |-> ret'.price], p))
                   => /\ ret'.trades = <<>>
                      /\ RemainingAfter = ret'.quantity
                      /\ id \in order_map']_vars

\* C34: can_fill_order(side, qty, p) returns (f >= p, f) with
\* f = min(qty, total quantity of all the opposite side's levels) / qty,
\* whatever the number of opposite-side levels.
C34_CanFillWalksWholeBook ==
    Returned =>
       \A side \in Sides, qty \in 1..DeepPrices, p \in FillPercents :
          LET opp == IF side = "BUY" THEN asks ELSE bids
              total == Min(qty, LevelsQuantity(opp, DOMAIN opp))
              f == get_average_price_for_quantity(Book, side, qty)
          IN  /\ f.num * qty = total * f.den
              /\ can_fill_order(Book, side, qty, p) <=> total * 100 >= p * qty

\* The step is a CANCEL message handled by the exchange: cancel_order was
\* called, or the symbol has no book.
IsCancelMessage ==
    /\ calls' = calls + 1
    /\ ret'.op = "cancel_order" \/ Symbol \notin DOMAIN market_data'

\* C35: on a CANCEL message the exchange publishes CANCEL_CONFIRM and then
\* a fresh PRICE update, both with the inbound timestamp (the timestamp
\* _update_market_data records), exactly when cancel_order returned True;
\* when the id or the symbol is unknown it publishes nothing and leaves
\* the book and the market data unchanged.
C35_CancelPublications ==
    [][IsCancelMessage =>
         IF Symbol \in DOMAIN market_data /\ ret'.ok
         THEN LET t == market_data'[Symbol].timestamp
                  confirm == Publication(message_queue', published + 1)
                  price == Publication(message_queue', published + 2)
              IN  /\ ret'.order_id \in order_map
                  /\ published' = published + 2
                  /\ message_queue \subseteq message_queue'
                  /\ Cardinality(NewMessages) = 2
                  /\ {m.seq : m \in NewMessages}
                        = {published + 1, published + 2}
                  /\ confirm.topic = <<Symbol, "CANCEL_CONFIRM">>
                  /\ confirm.payload
                        = [order_id |-> ret'.order_id, cancelled |-> TRUE]
                  /\ price.topic = <<Symbol, "PRICE">>
                  /\ price.payload.best_bid = best_bid'
                  /\ price.payload.best_ask = best_ask'
                  /\ confirm.timestamp = t /\ price.timestamp = t
                  /\ t \in MessageTimes
                  /\ market_data'[Symbol].best_bid = best_bid'
                  /\ market_data'[Symbol].best_ask = best_ask'
         ELSE /\ UNCHANGED <<message_queue, published, market_data>>
              /\ UNCHANGED BookVars]_vars

\* An order was cancelled by a CANCEL message of timestamp MaxTime: the
\* last two publications are its CANCEL_CONFIRM and its PRICE.
C35_Witness ==
    /\ ret.op = "cancel_order" /\ ret.ok /\ published >= 2
    /\ \E c, p \in message_queue :
          /\ c.seq + 1 = published /\ p.seq = published
          /\ c.topic = <<Symbol, "CANCEL_CONFIRM">>
          /\ c.payload.order_id = ret.order_id
          /\ p.topic = <<Symbol, "PRICE">>
          /\ c.timestamp = MaxTime /\ p.timestamp = MaxTime
          /\ market_data[Symbol].timestamp = MaxTime

\* C36: get_imbalance returns (Q_bid - Q_ask) / (Q_bid + Q_ask), Q_bid the
\* total quantity of the orders resting on the bid side and Q_ask that of
\* the ask side: positive exactly when the bids hold more, negative exactly
\* when the asks hold more, 0 when they are equal or both sides are empty.
C36_ImbalanceOfRestingQuantity ==
    Returned =>
       LET Q_bid == OrdersQuantity(obj, bids, DOMAIN bids)
           Q_ask == OrdersQuantity(obj, asks, DOMAIN asks)
           f == get_imbalance(Book)
       IN  /\ f.den > 0
           /\ f.num * (Q_bid + Q_ask) = (Q_bid - Q_ask) * f.den
           /\ f.num > 0 <=> Q_bid > Q_ask
           /\ f.num < 0 <=> Q_bid < Q_ask
           /\ f.num = 0 <=> Q_bid = Q_ask

\* The first timestamp of the event queue.
QueueHead == SetMin({e[1] : e \in DOMAIN event_queue})

\* C37: during run(end_time), current_time never decreases and never
\* exceeds end_time; when the next event is later than end_time the clock
\* is set to end_time (and the event stays queued), and no wakeup(t) is
\* invoked with t > end_time.
C37_ClockMonotoneAndBounded ==
    [][pc' # "idle" =>
         /\ current_time' >= current_time
         /\ current_time' <= end_time'
         /\ (pc = "loop" /\ pc' = "deliver" /\ QueueHead > end_time)
               => (current_time' = end_time /\ event_queue' = event_queue)
         /\ IsWakeup => current_time <= end_time]_vars

\* The clock was clamped: it moved to end_time with no event there, while
\* the events queued are all later than end_time.
C37_Witness ==
    /\ pc = "deliver" /\ end_time > 0 /\ current_time = end_time
    /\ current_time \notin DOMAIN agent_wakeups
    /\ DOMAIN event_queue # {}
    /\ \A e \in DOMAIN event_queue : e[1] > end_time

\* C38: add_limit_order and add_market_order terminate from every book
\* state that add_limit_order, add_market_order and cancel_order calls
\* reach: the matching loop never spins on an opposite-side level from
\* which it removes no quantity.
C38_MatchingTerminates == status # "spinning"

\* C39: every trade that add_limit_order or add_market_order returns has
\* quantity >= 1, and no order quantity and no level aggregate is negative.
C39_TradesPositive ==
    [][/\ (calls' = calls + 1 /\ IsAdd(ret') /\ status' = "ready")
             => \A k \in DOMAIN ret'.trades : ret'.trades[k].quantity >= 1
       /\ \A id \in DOMAIN obj' : obj'[id].quantity >= 0
       /\ \A p \in DOMAIN bids' : bids'[p].quantity >= 0
       /\ \A p \in DOMAIN asks' : asks'[p].quantity >= 0]_vars

\* The step is an ORDER message carrying a market order that the book
\* rejects for insufficient liquidity.
IsRejectedMarketOrder ==
    /\ calls' = calls + 1
    /\ ret'.op = "add_market_order" /\ ~ret'.ok
    /\ status' = "ready"

\* C40 as stated: when the exchange receives a market ORDER that the book
\* rejects for insufficient liquidity, it publishes no message and leaves
\* trade_history, market_data and the order book unchanged.
C40_RejectedOrderChangesNothing ==
    [][IsRejectedMarketOrder =>
         /\ UNCHANGED <<message_queue, published, trade_history>>
         /\ UNCHANGED market_data
         /\ UNCHANGED BookVars]_vars

\* C40, amended: a rejected market ORDER publishes no message and leaves
\* trade_history and the order book unchanged; market_data is unchanged
\* when the symbol has a book, and when the ORDER is the first the exchange
\* sees of the symbol, the symbol is initialized: market_data gains the
\* symbol's entry (timestamp 0, best_bid 0, best_ask infinity), the exchange
\* subscribes to the symbol's topics and schedules its wakeup.
C40_RejectedOrderOnlyInitializes ==
    [][IsRejectedMarketOrder =>
         /\ UNCHANGED <<message_queue, published, trade_history>>
         /\ UNCHANGED BookVars
         /\ IF Symbol \in DOMAIN market_data
            THEN UNCHANGED <<market_data, subscriptions, scheduled_wakeups>>
            ELSE /\ DOMAIN market_data' = DOMAIN market_data \cup {Symbol}
                 /\ \A y \in DOMAIN market_data :
                       market_data'[y] = market_data[y]
                 /\ market_data'[Symbol].timestamp = 0
                 /\ market_data'[Symbol].best_bid = 0
                 /\ market_data'[Symbol].best_ask = Inf
                 /\ \A tp \in ExchangeTopics(Symbol) :
                       ExchangeId \in subscriptions'[tp]
                 /\ Interval \in scheduled_wakeups']_vars

\* A market BUY was rejected by a book that holds asks, too few of them,
\* after the exchange had published the market data of an earlier order.
C40_Witness ==
    /\ Returned /\ ret.op = "add_market_order" /\ ~ret.ok
    /\ ret.side = "BUY" /\ DOMAIN asks # {}
    /\ Symbol \in DOMAIN market_data
    /\ market_data[Symbol].best_ask # Inf
    /\ published > 0

====
